---- MODULE Spec2Model ----
(***************************************************************************)
(* A model of librsvg's cairo drawing context (rsvg-cairo-draw.c, kept as  *)
(* src/unnamed/part_000) and of its paint servers (rsvg-paint-server.c).   *)
(*                                                                         *)
(* The drawing context is the record `ctx`; every C function of the        *)
(* context is an operator from a context (and the cairo backend state) to  *)
(* the context it leaves behind.  These specifications drive the           *)
(* operators:                                                              *)
(*   Spec         one render pass: the recursive tree walk, with its C     *)
(*                call stack kept in `frames`;                             *)
(*   ApiSpec      an arbitrary caller of the context's public functions,   *)
(*                one whole call per step, discipline not assumed;         *)
(*   ViewBoxSpec  a caller that brackets its calls: view boxes, discrete   *)
(*                layers and mask generation, each ended by its own end;   *)
(*   TargetSpec   a caller that has masks generated and nodes drawn to     *)
(*                surfaces of their own, and draws elements in between;    *)
(*   PaintSpec    one element painted on its parent's surface, with and    *)
(*                without a layer of its own;                              *)
(*   PixelSpec    the pixel conversions between GdkPixbuf and cairo image  *)
(*                data, and the luminance of a mask, on one pixel;         *)
(*   GradientSpec the attributes of a gradient element being set.          *)
(*   ParseSpec    the text of a paint specification being parsed.          *)
(***************************************************************************)
EXTENDS Integers, Sequences, FiniteSets, TLC

VARIABLES
    proc,     \* life of the context: "none", "live", "rendering", "rendered",
              \* "freed", "aborted"
    ctx,      \* the RsvgDrawingCtx
    cairo,    \* the 2D backend: live cairo_t's and surfaces
    frames,   \* the C call stack of the render pass, innermost frame last
    faults,   \* surface allocations that have failed so far
    last,     \* the call that the last step completed, with what it returned
    steps,    \* the steps the render pass has taken
    pixels,   \* the pixel data: of the image that is being converted, or of
              \* the surfaces that are painted
    grad      \* the gradient element whose attributes are being set

vars == <<proc, ctx, cairo, frames, faults, last, steps, pixels, grad>>

----------------------------------------------------------------------------
(* Bounds of the model. *)

\* surface allocations that may fail during one render pass
MaxFaults == 1
\* largest nominal document dimension handed to rsvg_drawing_ctx_new
MaxDim == 1
\* layers an interface caller leaves open at a time
MaxApiLayers == 1
\* view boxes and mask generations an interface caller has open at a time
MaxApiFrames == 3

----------------------------------------------------------------------------
(* Values. *)

NULL == "NULL"

\* opacity == 0xFF
OPAQUE == 255

CAIRO_OPERATOR_OVER == "over"
RSVG_ENABLE_BACKGROUND_ACCUMULATE == "accumulate"
userSpaceOnUse == "userSpaceOnUse"
objectBoundingBox == "objectBoundingBox"

RSVG_NODE_TYPE_CLIP_PATH == "clipPath"
RSVG_NODE_TYPE_MASK == "mask"
RSVG_NODE_TYPE_FILTER == "filter"

\* the nil objects cairo hands out when an allocation fails
NilSurface == 0
NilCr == 0

----------------------------------------------------------------------------
(* The document's definitions: the elements other elements refer to. *)

Nodes == {"M1", "M2", "M3", "KU", "KB", "F"}

Urls == {NULL, "#M1", "doc.svg#M1", "#M2", "#M3", "#KU", "#KB", "#F", "#nope"}

NodeTypes == {RSVG_NODE_TYPE_CLIP_PATH, RSVG_NODE_TYPE_MASK, RSVG_NODE_TYPE_FILTER}

rsvg_node_get_type(node) ==
    CASE node \in {"M1", "M2", "M3"} -> RSVG_NODE_TYPE_MASK
      [] node \in {"KU", "KB"} -> RSVG_NODE_TYPE_CLIP_PATH
      [] node = "F" -> RSVG_NODE_TYPE_FILTER
      [] OTHER -> "none"

\* two urls may name one node: "#M1" and "doc.svg#M1"
rsvg_defs_lookup(url) ==
    CASE url \in {"#M1", "doc.svg#M1"} -> "M1"
      [] url = "#M2" -> "M2"
      [] url = "#M3" -> "M3"
      [] url = "#KU" -> "KU"
      [] url = "#KB" -> "KB"
      [] url = "#F" -> "F"
      [] OTHER -> NULL

rsvg_node_clip_path_get_units(node) ==
    IF node = "KB" THEN objectBoundingBox ELSE userSpaceOnUse

rsvg_node_mask_get_units(node) ==
    IF node = "M2" THEN userSpaceOnUse ELSE objectBoundingBox

rsvg_node_mask_get_content_units(node) ==
    IF node = "M1" THEN objectBoundingBox ELSE userSpaceOnUse

----------------------------------------------------------------------------
(* Element style: what rsvg_state_get_* return for the element drawn. *)

Style(cp, f, m, o, op, eb, vis) ==
    [clip_path |-> cp, filter |-> f, mask |-> m, opacity |-> o,
     comp_op |-> op, enable_background |-> eb, visible |-> vis]

DefaultStyle == Style(NULL, NULL, NULL, OPAQUE, CAIRO_OPERATOR_OVER,
                      RSVG_ENABLE_BACKGROUND_ACCUMULATE, TRUE)

ClipUrls == {NULL, "#KU", "#KB", "#nope"}
FilterUrls == {NULL, "#F", "#nope"}
MaskUrls == {NULL, "#M1", "#M3", "#KU"}
Opacities == {OPAQUE, 128, 0}
CompOps == {CAIRO_OPERATOR_OVER, "xor"}
EnableBackgrounds == {RSVG_ENABLE_BACKGROUND_ACCUMULATE, "new"}

\* every style an element at the top of the rendered tree may have
TopStyles ==
    {Style(cp, f, m, o, op, eb, TRUE) :
        cp \in ClipUrls, f \in FilterUrls, m \in MaskUrls,
        o \in {OPAQUE, 128}, op \in CompOps, eb \in EnableBackgrounds}
    \cup {[DefaultStyle EXCEPT !.visible = FALSE],
          [DefaultStyle EXCEPT !.opacity = 0]}

\* the styles of the elements nested below
NestedStyles ==
    {DefaultStyle,
     [DefaultStyle EXCEPT !.opacity = 128],
     [DefaultStyle EXCEPT !.filter = "#F"],
     [DefaultStyle EXCEPT !.mask = "#M1", !.filter = "#nope"],
     [DefaultStyle EXCEPT !.clip_path = "#KB"],
     [DefaultStyle EXCEPT !.visible = FALSE]}

\* the children of the definitions, with the style each child has
DefKids(node) ==
    CASE node = "M1" -> <<[DefaultStyle EXCEPT !.mask = "#M2"]>>
      [] node = "M2" -> <<[DefaultStyle EXCEPT !.mask = "doc.svg#M1", !.opacity = 128]>>
      [] node = "M3" -> <<[DefaultStyle EXCEPT !.mask = "#M3"]>>
      [] node = "KU" -> <<[DefaultStyle EXCEPT !.opacity = 128]>>
      [] node = "KB" -> <<DefaultStyle>>
      [] OTHER -> <<>>

NodeIndex(node) ==
    CASE node = "M1" -> 1 [] node = "M2" -> 2 [] node = "M3" -> 3
      [] node = "KU" -> 4 [] node = "KB" -> 5 [] OTHER -> 6

\* elements are named by their path from the root; the definitions hang
\* below <<0>>, the rendered tree below <<1>>
DefKidPath(node, i) == <<0, NodeIndex(node), i>>

----------------------------------------------------------------------------
(* GLib lists: the head of the list is the first element of the sequence. *)

Range(seq) == {seq[i] : i \in DOMAIN seq}

g_list_prepend(list, data) == <<data>> \o list

g_slist_find(list, data) == data \in Range(list)

\* removes the first element that holds data, if there is one
g_slist_remove(list, data) ==
    IF ~ g_slist_find(list, data) THEN list
    ELSE LET i == CHOOSE k \in DOMAIN list :
                      /\ list[k] = data
                      /\ \A j \in 1..(k - 1) : list[j] # data
         IN SubSeq(list, 1, i - 1) \o SubSeq(list, i + 1, Len(list))

g_list_delete_link(list) == Tail(list)

Min(S) == CHOOSE x \in S : \A y \in S : x <= y
Max(S) == CHOOSE x \in S : \A y \in S : x >= y

----------------------------------------------------------------------------
(* Affine transforms and bounding boxes.  A cairo_matrix_t is kept as its  *)
(* diagonal and its translation, xx and yy being 1 or -1, over integers.   *)

Matrix(xx, yy, x0, y0) == [xx |-> xx, yy |-> yy, x0 |-> x0, y0 |-> y0]

cairo_matrix_init_identity == Matrix(1, 1, 0, 0)

cairo_matrix_translate(m, tx, ty) ==
    [m EXCEPT !.x0 = @ + m.xx * tx, !.y0 = @ + m.yy * ty]

Rect(x, y, w, h) == [x |-> x, y |-> y, width |-> w, height |-> h]

rsvg_bbox_init(affine) ==
    [virgin |-> TRUE, rect |-> Rect(0, 0, 0, 0), affine |-> affine]

\* a box that holds rect, in the coordinates of affine
BboxOf(rect, affine) == [virgin |-> FALSE, rect |-> rect, affine |-> affine]

\* src, carried into dst's coordinates, is united with dst
rsvg_bbox_insert(dst, src) ==
    IF src.virgin THEN dst
    ELSE LET ax == dst.affine.xx * src.affine.xx
             bx == dst.affine.xx * (src.affine.x0 - dst.affine.x0)
             ay == dst.affine.yy * src.affine.yy
             by == dst.affine.yy * (src.affine.y0 - dst.affine.y0)
             xs == {ax * src.rect.x + bx, ax * (src.rect.x + src.rect.width) + bx}
             ys == {ay * src.rect.y + by, ay * (src.rect.y + src.rect.height) + by}
             dx == IF dst.virgin THEN xs
                   ELSE xs \cup {dst.rect.x, dst.rect.x + dst.rect.width}
             dy == IF dst.virgin THEN ys
                   ELSE ys \cup {dst.rect.y, dst.rect.y + dst.rect.height}
         IN [virgin |-> FALSE,
             rect |-> Rect(Min(dx), Min(dy), Max(dx) - Min(dx), Max(dy) - Min(dy)),
             affine |-> dst.affine]

----------------------------------------------------------------------------
(* The cairo backend: cairo.target maps every live cairo_t to the surface  *)
(* it draws on, cairo.refs every live surface to its reference count.      *)
(* Identifiers are positive; 0 is the nil object of a failed allocation.   *)

FreshId(used) == Min({i \in 1..(Cardinality(used) + 1) : i \notin used})

cairo_get_target(b, cr) == IF cr \in DOMAIN b.target THEN b.target[cr] ELSE NilSurface

\* a new surface of the given size, or the nil surface when ok is FALSE
cairo_surface_create(b, ok) ==
    IF ok
    THEN LET s == FreshId(DOMAIN b.refs)
         IN [cairo |-> [b EXCEPT !.refs = [x \in DOMAIN b.refs \cup {s} |->
                                               IF x = s THEN 1 ELSE b.refs[x]]],
             surface |-> s]
    ELSE [cairo |-> b, surface |-> NilSurface]

cairo_surface_destroy(b, s) ==
    IF s \notin DOMAIN b.refs THEN b
    ELSE IF b.refs[s] > 1 THEN [b EXCEPT !.refs[s] = @ - 1]
    ELSE [b EXCEPT !.refs = [x \in DOMAIN b.refs \ {s} |-> b.refs[x]]]

\* a new cairo_t that draws on s and holds a reference to it
cairo_create(b, s) ==
    IF s \notin DOMAIN b.refs THEN [cairo |-> b, cr |-> NilCr]
    ELSE LET c == FreshId(DOMAIN b.target)
         IN [cairo |-> [b EXCEPT !.target = [x \in DOMAIN b.target \cup {c} |->
                                                 IF x = c THEN s ELSE b.target[x]],
                                 !.refs[s] = @ + 1],
             cr |-> c]

cairo_destroy(b, cr) ==
    IF cr \notin DOMAIN b.target THEN b
    ELSE cairo_surface_destroy(
             [b EXCEPT !.target = [x \in DOMAIN b.target \ {cr} |-> b.target[x]]],
             b.target[cr])

\* the caller's cairo_t, drawing on the caller's surface
InitialCairo == [target |-> (1 :> 1), refs |-> (1 :> 2)]
InitialCr == 1

----------------------------------------------------------------------------
(* Creation and teardown of the drawing context. *)

\* the corners of the width x height image under affine: floor of the
\* smallest and ceiling of the largest coordinates
rsvg_cairo_transformed_image_bounding_box(affine, width, height) ==
    LET xs == {affine.x0, affine.xx * width + affine.x0}
        ys == {affine.y0, affine.yy * height + affine.y0}
    IN [x0 |-> Min(xs), y0 |-> Min(ys), x1 |-> Max(xs), y1 |-> Max(ys)]

\* the RsvgDrawingCtx pointer that is NULL
NoCtx == [null |-> TRUE]

\* data: the document's nominal width and height; affine: the matrix of cr.
\* faulty variant of rsvg_drawing_ctx_new: refuses only a document whose
\* two dimensions are both 0
drawing_ctx_new_both_zero(cr, data, affine) ==
    IF data.width = 0 /\ data.height = 0 THEN NoCtx
    ELSE [initial_cr |-> cr, cr |-> cr, cr_stack |-> <<>>, surfaces_stack |-> <<>>,
          offset_x |-> 0, offset_y |-> 0, width |-> data.width, height |-> data.height,
          state |-> <<affine>>, vb |-> [width |-> data.em, height |-> data.ex],
          vb_stack |-> <<>>, drawsub_stack |-> <<>>, acquired_nodes |-> <<>>,
          bbox |-> rsvg_bbox_init(affine), ink_bbox |-> rsvg_bbox_init(affine),
          bb_stack |-> <<>>, ink_bb_stack |-> <<>>, glog |-> {}]

\* NULL when either dimension is 0.
rsvg_drawing_ctx_new(cr, data, affine) ==
    IF data.width = 0 \/ data.height = 0 THEN NoCtx
    ELSE LET bb == rsvg_cairo_transformed_image_bounding_box(affine, data.width,
                                                              data.height)
             state_affine == [affine EXCEPT !.x0 = @ - bb.x0, !.y0 = @ - bb.y0]
         IN [initial_cr |-> cr,
             cr |-> cr,
             cr_stack |-> <<>>,
             surfaces_stack |-> <<>>,
             offset_x |-> bb.x0,
             offset_y |-> bb.y0,
             width |-> bb.x1 - bb.x0,
             height |-> bb.y1 - bb.y0,
             state |-> <<state_affine>>,
             vb |-> [width |-> data.em, height |-> data.ex],
             vb_stack |-> <<>>,
             drawsub_stack |-> <<>>,
             acquired_nodes |-> <<>>,
             bbox |-> rsvg_bbox_init(state_affine),
             ink_bbox |-> rsvg_bbox_init(state_affine),
             bb_stack |-> <<>>,
             ink_bb_stack |-> <<>>,
             glog |-> {}]

\* faulty variant of rsvg_drawing_ctx_free: acquired_nodes is asserted to
\* be empty like the other stacks
drawing_ctx_free_asserts_acquired(c) ==
    IF c.cr_stack # <<>>
    THEN [proc |-> "aborted", failed |-> "cr_stack", glog |-> c.glog]
    ELSE IF c.surfaces_stack # <<>>
    THEN [proc |-> "aborted", failed |-> "surfaces_stack", glog |-> c.glog]
    ELSE IF c.acquired_nodes # <<>>
    THEN [proc |-> "aborted", failed |-> "acquired_nodes", glog |-> c.glog]
    ELSE IF c.bb_stack # <<>>
    THEN [proc |-> "aborted", failed |-> "bb_stack", glog |-> c.glog]
    ELSE IF c.ink_bb_stack # <<>>
    THEN [proc |-> "aborted", failed |-> "ink_bb_stack", glog |-> c.glog]
    ELSE [proc |-> "freed", failed |-> NULL, glog |-> c.glog]

\* g_assert aborts the process at the first check that fails;
\* g_warn_if_fail logs a warning and goes on
rsvg_drawing_ctx_free(c) ==
    LET warned == IF c.acquired_nodes # <<>>
                  THEN c.glog \cup {"warning: ctx->acquired_nodes == NULL"}
                  ELSE c.glog
    IN IF c.cr_stack # <<>>
       THEN [proc |-> "aborted", failed |-> "cr_stack", glog |-> c.glog]
       ELSE IF c.surfaces_stack # <<>>
       THEN [proc |-> "aborted", failed |-> "surfaces_stack", glog |-> c.glog]
       ELSE IF c.state = <<>>
       THEN [proc |-> "aborted", failed |-> "state", glog |-> c.glog]
       ELSE IF Len(c.state) # 1
       THEN [proc |-> "aborted", failed |-> "state_parent", glog |-> c.glog]
       ELSE IF c.bb_stack # <<>>
       THEN [proc |-> "aborted", failed |-> "bb_stack", glog |-> warned]
       ELSE IF c.ink_bb_stack # <<>>
       THEN [proc |-> "aborted", failed |-> "ink_bb_stack", glog |-> warned]
       ELSE [proc |-> "freed", failed |-> NULL, glog |-> warned]

rsvg_drawing_ctx_get_current_state(c) == c.state

\* the affine of the current state
rsvg_state_get_affine(state) == state[Len(state)]

rsvg_state_set_affine(state, affine) == [state EXCEPT ![Len(state)] = affine]

\* rsvg_drawing_ctx_state_push: the new state inherits from the current one
rsvg_drawing_ctx_state_push(c) ==
    [c EXCEPT !.state = Append(@, rsvg_state_get_affine(@))]

rsvg_drawing_ctx_state_pop(c) ==
    [c EXCEPT !.state = SubSeq(@, 1, Len(@) - 1)]

----------------------------------------------------------------------------
(* Acquiring and releasing referenced nodes. *)

\* faulty variant of rsvg_drawing_ctx_acquire_node: no recursion check
acquire_node_unguarded(c, url) ==
    IF url = NULL \/ rsvg_defs_lookup(url) = NULL THEN [ctx |-> c, node |-> NULL]
    ELSE [ctx |-> [c EXCEPT !.acquired_nodes = g_list_prepend(@, rsvg_defs_lookup(url))],
          node |-> rsvg_defs_lookup(url)]

\* faulty variant of rsvg_drawing_ctx_acquire_node: the recursion check
\* looks at the most recent acquisition only
acquire_node_checks_head(c, url) ==
    IF url = NULL \/ rsvg_defs_lookup(url) = NULL THEN [ctx |-> c, node |-> NULL]
    ELSE IF c.acquired_nodes # <<>> /\ Head(c.acquired_nodes) = rsvg_defs_lookup(url)
    THEN [ctx |-> c, node |-> NULL]
    ELSE [ctx |-> [c EXCEPT !.acquired_nodes = g_list_prepend(@, rsvg_defs_lookup(url))],
          node |-> rsvg_defs_lookup(url)]

\* [ctx, node]: node is NULL when url is NULL, names no node, or names a
\* node that is on acquired_nodes
rsvg_drawing_ctx_acquire_node(c, url) ==
    IF url = NULL THEN [ctx |-> c, node |-> NULL]
    ELSE LET node == rsvg_defs_lookup(url)
         IN IF node = NULL THEN [ctx |-> c, node |-> NULL]
            ELSE IF g_slist_find(c.acquired_nodes, node) THEN [ctx |-> c, node |-> NULL]
            ELSE [ctx |-> [c EXCEPT !.acquired_nodes = g_list_prepend(@, node)],
                  node |-> node]

\* faulty variant of rsvg_drawing_ctx_release_node: the node is removed
\* wherever it is on acquired_nodes
release_node_any_position(c, node) ==
    IF node = NULL THEN c
    ELSE [c EXCEPT !.acquired_nodes = g_slist_remove(@, node)]

\* faulty variant of rsvg_drawing_ctx_release_node: the node stays on
\* acquired_nodes
release_node_keeps(c, node) == c

\* g_return_if_fail logs a critical message and returns
rsvg_drawing_ctx_release_node(c, node) ==
    IF node = NULL THEN c
    ELSE IF c.acquired_nodes = <<>>
    THEN [c EXCEPT !.glog = @ \cup {"critical: ctx->acquired_nodes != NULL"}]
    ELSE IF Head(c.acquired_nodes) # node
    THEN [c EXCEPT !.glog = @ \cup {"critical: ctx->acquired_nodes->data == node"}]
    ELSE [c EXCEPT !.acquired_nodes = g_slist_remove(@, node)]

\* faulty variant of rsvg_drawing_ctx_acquire_node_of_type: a node of
\* another type is not released
acquire_node_of_type_keeps(c, url, type) ==
    IF rsvg_drawing_ctx_acquire_node(c, url).node = NULL
       \/ rsvg_node_get_type(rsvg_drawing_ctx_acquire_node(c, url).node) # type
    THEN [ctx |-> rsvg_drawing_ctx_acquire_node(c, url).ctx, node |-> NULL]
    ELSE rsvg_drawing_ctx_acquire_node(c, url)

rsvg_drawing_ctx_acquire_node_of_type(c, url, type) ==
    LET got == rsvg_drawing_ctx_acquire_node(c, url)
    IN IF got.node = NULL \/ rsvg_node_get_type(got.node) # type
       THEN [ctx |-> rsvg_drawing_ctx_release_node(got.ctx, got.node), node |-> NULL]
       ELSE got

----------------------------------------------------------------------------
(* Offsets, bounding boxes and view boxes. *)

rsvg_drawing_ctx_get_offset(c) == [x |-> c.offset_x, y |-> c.offset_y]

rsvg_drawing_ctx_insert_bbox(c, bbox) ==
    [c EXCEPT !.bbox = rsvg_bbox_insert(@, bbox)]

rsvg_drawing_ctx_insert_ink_bbox(c, ink_bbox) ==
    [c EXCEPT !.ink_bbox = rsvg_bbox_insert(@, ink_bbox)]

rsvg_drawing_ctx_push_view_box(c, w, h) ==
    [c EXCEPT !.vb_stack = g_list_prepend(@, c.vb),
              !.vb = [width |-> w, height |-> h]]

\* faulty variant of rsvg_drawing_ctx_pop_view_box: the view box saved is
\* dropped, the current one stays
pop_view_box_keeps_size(c) ==
    [c EXCEPT !.vb_stack = g_list_delete_link(@)]

rsvg_drawing_ctx_pop_view_box(c) ==
    [c EXCEPT !.vb = Head(c.vb_stack),
              !.vb_stack = g_list_delete_link(@)]

push_bounding_box(c) ==
    LET affine == rsvg_state_get_affine(rsvg_drawing_ctx_get_current_state(c))
    IN [c EXCEPT !.bb_stack = g_list_prepend(@, c.bbox),
                 !.ink_bb_stack = g_list_prepend(@, c.ink_bbox),
                 !.bbox = rsvg_bbox_init(affine),
                 !.ink_bbox = rsvg_bbox_init(affine)]

\* faulty variant of pop_bounding_box: each box is merged into the saved
\* box of the other kind
pop_bounding_box_crosses_kinds(c) ==
    [c EXCEPT !.bbox = rsvg_bbox_insert(Head(c.bb_stack), c.ink_bbox),
              !.ink_bbox = rsvg_bbox_insert(Head(c.ink_bb_stack), c.bbox),
              !.bb_stack = g_list_delete_link(@),
              !.ink_bb_stack = g_list_delete_link(@)]

\* faulty variant of pop_bounding_box: ink_bb_stack keeps its head
pop_bounding_box_keeps_ink(c) ==
    [c EXCEPT !.bbox = rsvg_bbox_insert(Head(c.bb_stack), c.bbox),
              !.ink_bbox = rsvg_bbox_insert(Head(c.ink_bb_stack), c.ink_bbox),
              !.bb_stack = g_list_delete_link(@)]

pop_bounding_box(c) ==
    [c EXCEPT !.bbox = rsvg_bbox_insert(Head(c.bb_stack), c.bbox),
              !.ink_bbox = rsvg_bbox_insert(Head(c.ink_bb_stack), c.ink_bbox),
              !.bb_stack = g_list_delete_link(@),
              !.ink_bb_stack = g_list_delete_link(@)]

----------------------------------------------------------------------------
(* The layer compositing engine.  The C functions that recurse into the    *)
(* tree walk (rsvg_cairo_clip and rsvg_cairo_generate_mask draw children)  *)
(* are cut at the recursion.  A machine m is [ctx, cairo, ev]: the         *)
(* context, the backend, and ev, the backend calls made so far on behalf   *)
(* of the element whose layer is being pushed or popped.                   *)

Machine(c, b, ev) == [ctx |-> c, cairo |-> b, ev |-> ev]

\* the backend calls named e among the calls ev
Events(ev, e) == {i \in DOMAIN ev : ev[i].e = e}

\* faulty variant of push_fast_path: any clip path asks for a layer
push_fast_path_without_clip(st, lateclip) ==
    /\ st.opacity = OPAQUE
    /\ st.filter = NULL
    /\ st.mask = NULL
    /\ st.clip_path = NULL
    /\ st.comp_op = CAIRO_OPERATOR_OVER
    /\ st.enable_background = RSVG_ENABLE_BACKGROUND_ACCUMULATE

\* rsvg_cairo_push_render_stack, the test for rendering without a layer
push_fast_path(st, lateclip) ==
    /\ st.opacity = OPAQUE
    /\ st.filter = NULL
    /\ st.mask = NULL
    /\ ~ lateclip
    /\ st.comp_op = CAIRO_OPERATOR_OVER
    /\ st.enable_background = RSVG_ENABLE_BACKGROUND_ACCUMULATE

\* rsvg_cairo_pop_render_stack, the same test at exit; lateclip is a node
pop_fast_path(st, lateclip) ==
    /\ st.opacity = OPAQUE
    /\ st.filter = NULL
    /\ st.mask = NULL
    /\ lateclip = NULL
    /\ st.comp_op = CAIRO_OPERATOR_OVER
    /\ st.enable_background = RSVG_ENABLE_BACKGROUND_ACCUMULATE

\* rsvg_cairo_push_render_stack up to the clip: [ctx, node], node being
\* the clip path acquired, or NULL
push_render_stack_acquire(c, st) ==
    IF st.clip_path # NULL
    THEN rsvg_drawing_ctx_acquire_node_of_type(c, st.clip_path, RSVG_NODE_TYPE_CLIP_PATH)
    ELSE [ctx |-> c, node |-> NULL]

\* faulty variant of push_render_stack_layer: the surface of every layer
\* goes on surfaces_stack
push_render_stack_layer_keeps_every_surface(m, st, c1, ok) ==
    LET alloc == cairo_surface_create(m.cairo, ok)
        c2 == [c1 EXCEPT !.surfaces_stack = g_list_prepend(@, alloc.surface)]
        made == cairo_create(alloc.cairo, alloc.surface)
        c3 == [c2 EXCEPT !.cr_stack = g_list_prepend(@, c2.cr),
                         !.cr = made.cr]
    IN [fast |-> FALSE,
        m |-> Machine(push_bounding_box(c3),
                      cairo_surface_destroy(made.cairo, alloc.surface),
                      Append(m.ev, [e |-> "create_layer",
                                    surface |-> alloc.surface, cr |-> made.cr,
                                    filtered |-> st.filter # NULL]))]

\* rsvg_cairo_push_render_stack past the test of the fast path: the layer
\* is created on the context c1; ok: whether the surface allocation succeeds
push_render_stack_layer(m, st, c1, ok) ==
    LET alloc == cairo_surface_create(m.cairo, ok)
        c2 == IF st.filter # NULL
              THEN [c1 EXCEPT !.surfaces_stack = g_list_prepend(@, alloc.surface)]
              ELSE c1
        made == cairo_create(alloc.cairo, alloc.surface)
        c3 == [c2 EXCEPT !.cr_stack = g_list_prepend(@, c2.cr),
                         !.cr = made.cr]
    IN [fast |-> FALSE,
        m |-> Machine(push_bounding_box(c3),
                      cairo_surface_destroy(made.cairo, alloc.surface),
                      Append(m.ev, [e |-> "create_layer",
                                    surface |-> alloc.surface, cr |-> made.cr,
                                    filtered |-> st.filter # NULL]))]

\* rsvg_cairo_push_render_stack from the release of the clip path on:
\* [fast, m]; ok: whether the surface allocation succeeds
push_render_stack_rest(m, st, node, ok) ==
    LET c1 == rsvg_drawing_ctx_release_node(m.ctx, node)
        lateclip == node # NULL /\ rsvg_node_clip_path_get_units(node) = objectBoundingBox
    IN IF push_fast_path(st, lateclip)
       THEN [fast |-> TRUE, m |-> [m EXCEPT !.ctx = c1]]
       ELSE push_render_stack_layer(m, st, c1, ok)

\* rsvg_cairo_clip up to the drawing of the children: [ctx, frame]
rsvg_cairo_clip_begin(c, node_clip_path, bbox, at) ==
    [ctx |-> rsvg_drawing_ctx_state_push(c),
     frame |-> [k |-> "clip", node |-> node_clip_path, at |-> at, bbox |-> bbox,
                entry |-> c,
                orig_cr_stack |-> c.cr_stack,
                orig_surfaces_stack |-> c.surfaces_stack,
                orig_bbox |-> c.bbox,
                orig_ink_bbox |-> c.ink_bbox,
                kids |-> 0]]

\* faulty variant of rsvg_cairo_clip_end: ink_bbox is left as the children
\* of the clip path have made it
rsvg_cairo_clip_end_keeps_ink_bbox(m, fr) ==
    LET c1 == rsvg_drawing_ctx_state_pop(m.ctx)
    IN IF c1.cr_stack # fr.orig_cr_stack \/ c1.surfaces_stack # fr.orig_surfaces_stack
       THEN [ok |-> FALSE, m |-> [m EXCEPT !.ctx = c1]]
       ELSE [ok |-> TRUE,
             m |-> Machine([c1 EXCEPT !.bbox = fr.orig_bbox],
                           m.cairo,
                           Append(m.ev, [e |-> "clip", cr |-> c1.cr, node |-> fr.node,
                                         at |-> fr.at, bbox |-> fr.bbox]))]

\* rsvg_cairo_clip after the children: [ok, m]; ok is FALSE when a
\* g_assert fails
rsvg_cairo_clip_end(m, fr) ==
    LET c1 == rsvg_drawing_ctx_state_pop(m.ctx)
    IN IF c1.cr_stack # fr.orig_cr_stack \/ c1.surfaces_stack # fr.orig_surfaces_stack
       THEN [ok |-> FALSE, m |-> [m EXCEPT !.ctx = c1]]
       ELSE [ok |-> TRUE,
             m |-> Machine([c1 EXCEPT !.bbox = fr.orig_bbox,
                                      !.ink_bbox = fr.orig_ink_bbox],
                           m.cairo,
                           Append(m.ev, [e |-> "clip", cr |-> c1.cr, node |-> fr.node,
                                         at |-> fr.at, bbox |-> fr.bbox]))]

\* rsvg_cairo_generate_mask up to the drawing of the children:
\* [started, m, frame]; started is FALSE when the surface allocation fails,
\* and the function has then returned
rsvg_cairo_generate_mask_begin(m, cr, mask, opacity, ok) ==
    LET alloc == cairo_surface_create(m.cairo, ok)
    IN IF alloc.surface = NilSurface
       THEN [started |-> FALSE,
             m |-> [m EXCEPT !.ev = Append(@, [e |-> "create_mask",
                                               surface |-> NilSurface])],
             frame |-> NULL]
       ELSE LET c1 == IF rsvg_node_mask_get_units(mask) = objectBoundingBox
                      THEN rsvg_drawing_ctx_pop_view_box(
                               rsvg_drawing_ctx_push_view_box(m.ctx, 1, 1))
                      ELSE m.ctx
                made == cairo_create(alloc.cairo, alloc.surface)
                c2 == [c1 EXCEPT !.cr = made.cr]
                c3 == IF rsvg_node_mask_get_content_units(mask) = objectBoundingBox
                      THEN rsvg_drawing_ctx_push_view_box(c2, 1, 1)
                      ELSE c2
            IN [started |-> TRUE,
                m |-> Machine(rsvg_drawing_ctx_state_push(c3), made.cairo,
                              Append(m.ev, [e |-> "create_mask",
                                            surface |-> alloc.surface])),
                frame |-> [k |-> "mask", node |-> mask, cr |-> cr,
                           surface |-> alloc.surface, mask_cr |-> made.cr,
                           save_cr |-> c1.cr, opacity |-> opacity, kids |-> 0]]

\* faulty variant of rsvg_cairo_generate_mask_end: the mask surface is
\* placed at the offset of the canvas on every cairo_t
generate_mask_end_always_offsets(m, fr) ==
    LET c1 == rsvg_drawing_ctx_state_pop(m.ctx)
        c2 == IF rsvg_node_mask_get_content_units(fr.node) = objectBoundingBox
              THEN rsvg_drawing_ctx_pop_view_box(c1)
              ELSE c1
        c3 == [c2 EXCEPT !.cr = fr.save_cr]
    IN Machine(c3,
               cairo_surface_destroy(cairo_destroy(m.cairo, fr.mask_cr), fr.surface),
               Append(m.ev, [e |-> "mask_surface", cr |-> fr.cr, surface |-> fr.surface,
                             x |-> c3.offset_x, y |-> c3.offset_y,
                             opacity |-> fr.opacity]))

\* rsvg_cairo_generate_mask after the children
rsvg_cairo_generate_mask_end(m, fr) ==
    LET c1 == rsvg_drawing_ctx_state_pop(m.ctx)
        c2 == IF rsvg_node_mask_get_content_units(fr.node) = objectBoundingBox
              THEN rsvg_drawing_ctx_pop_view_box(c1)
              ELSE c1
        c3 == [c2 EXCEPT !.cr = fr.save_cr]
        b1 == cairo_destroy(m.cairo, fr.mask_cr)
        off == IF fr.cr = c3.initial_cr
               THEN rsvg_drawing_ctx_get_offset(c3)
               ELSE [x |-> 0, y |-> 0]
    IN Machine(c3,
               cairo_surface_destroy(b1, fr.surface),
               Append(m.ev, [e |-> "mask_surface", cr |-> fr.cr, surface |-> fr.surface,
                             x |-> off.x, y |-> off.y, opacity |-> fr.opacity]))

\* rsvg_filter_render: a new surface holding the filtered input
rsvg_filter_render(b, node, input) == cairo_surface_create(b, TRUE)

\* the locals of rsvg_cairo_pop_render_stack that live across its calls
PopLocals(child_cr, lateclip, surface, needs_destroy, mask_node) ==
    [child_cr |-> child_cr, lateclip |-> lateclip, surface |-> surface,
     needs_destroy |-> needs_destroy, mask_node |-> mask_node]

\* faulty variant of pop_render_stack_lateclip: the clip path is released
\* whatever its units, and none is kept for the late clip
pop_render_stack_lateclip_released(got) ==
    [ctx |-> rsvg_drawing_ctx_release_node(got.ctx, got.node), lateclip |-> NULL]

\* rsvg_cairo_pop_render_stack, the late clip path: got is the outcome of
\* acquiring the clip path of the state; [ctx, lateclip]
pop_render_stack_lateclip(got) ==
    IF got.node = NULL
    THEN [ctx |-> got.ctx, lateclip |-> NULL]
    ELSE IF rsvg_node_clip_path_get_units(got.node) = objectBoundingBox
    THEN [ctx |-> got.ctx, lateclip |-> got.node]
    ELSE [ctx |-> rsvg_drawing_ctx_release_node(got.ctx, got.node), lateclip |-> NULL]

\* faulty variant of pop_render_stack_filter: the surface of a filtered
\* layer stays on surfaces_stack
pop_render_stack_filter_keeps_surface(m, st, child_cr, lateclip, c1) ==
    LET output == Head(c1.surfaces_stack)
        fgot == IF st.filter # NULL
                THEN rsvg_drawing_ctx_acquire_node_of_type(c1, st.filter,
                                                           RSVG_NODE_TYPE_FILTER)
                ELSE [ctx |-> c1, node |-> NULL]
        needs_destroy == fgot.node # NULL
        rendered == rsvg_filter_render(m.cairo, fgot.node, output)
        surface == IF needs_destroy THEN rendered.surface
                   ELSE cairo_get_target(m.cairo, child_cr)
        c3 == rsvg_drawing_ctx_release_node(fgot.ctx, fgot.node)
        c4 == [c3 EXCEPT !.cr = Head(c3.cr_stack),
                         !.cr_stack = g_list_delete_link(@)]
        off == IF c4.cr = c4.initial_cr
               THEN rsvg_drawing_ctx_get_offset(c4)
               ELSE [x |-> 0, y |-> 0]
        ev1 == IF needs_destroy
               THEN Append(m.ev, [e |-> "filter_render", node |-> fgot.node,
                                  input |-> output, output |-> surface])
               ELSE m.ev
    IN [fast |-> FALSE,
        m |-> Machine(c4,
                      IF needs_destroy THEN rendered.cairo ELSE m.cairo,
                      Append(ev1, [e |-> "set_source_surface", cr |-> c4.cr,
                                   surface |-> surface,
                                   x |-> off.x, y |-> off.y])),
        loc |-> PopLocals(child_cr, lateclip, surface, needs_destroy, NULL)]

\* faulty variant of pop_render_stack_filter: the surface leaves
\* surfaces_stack only when the filter is acquired
pop_render_stack_filter_pops_when_acquired(m, st, child_cr, lateclip, c1) ==
    LET output == Head(c1.surfaces_stack)
        fgot == IF st.filter # NULL
                THEN rsvg_drawing_ctx_acquire_node_of_type(c1, st.filter,
                                                           RSVG_NODE_TYPE_FILTER)
                ELSE [ctx |-> c1, node |-> NULL]
        needs_destroy == fgot.node # NULL
        c2 == IF needs_destroy
              THEN [fgot.ctx EXCEPT !.surfaces_stack = g_list_delete_link(@)]
              ELSE fgot.ctx
        rendered == rsvg_filter_render(m.cairo, fgot.node, output)
        surface == IF needs_destroy THEN rendered.surface
                   ELSE cairo_get_target(m.cairo, child_cr)
        c3 == rsvg_drawing_ctx_release_node(c2, fgot.node)
        c4 == [c3 EXCEPT !.cr = Head(c3.cr_stack),
                         !.cr_stack = g_list_delete_link(@)]
        off == IF c4.cr = c4.initial_cr
               THEN rsvg_drawing_ctx_get_offset(c4)
               ELSE [x |-> 0, y |-> 0]
        ev1 == IF needs_destroy
               THEN Append(m.ev, [e |-> "filter_render", node |-> fgot.node,
                                  input |-> output, output |-> surface])
               ELSE m.ev
    IN [fast |-> FALSE,
        m |-> Machine(c4,
                      IF needs_destroy THEN rendered.cairo ELSE m.cairo,
                      Append(ev1, [e |-> "set_source_surface", cr |-> c4.cr,
                                   surface |-> surface,
                                   x |-> off.x, y |-> off.y])),
        loc |-> PopLocals(child_cr, lateclip, surface, needs_destroy, NULL)]

\* rsvg_cairo_pop_render_stack from the filter to cairo_set_source_surface,
\* c1 being the context after the late clip path: [fast, m, loc]
pop_render_stack_filter(m, st, child_cr, lateclip, c1) ==
    LET output == Head(c1.surfaces_stack)
        c2 == IF st.filter # NULL
              THEN [c1 EXCEPT !.surfaces_stack = g_list_delete_link(@)]
              ELSE c1
        fgot == IF st.filter # NULL
                THEN rsvg_drawing_ctx_acquire_node_of_type(c2, st.filter,
                                                           RSVG_NODE_TYPE_FILTER)
                ELSE [ctx |-> c2, node |-> NULL]
        needs_destroy == fgot.node # NULL
        rendered == rsvg_filter_render(m.cairo, fgot.node, output)
        surface == IF needs_destroy THEN rendered.surface
                   ELSE cairo_get_target(m.cairo, child_cr)
        c3 == rsvg_drawing_ctx_release_node(fgot.ctx, fgot.node)
        c4 == [c3 EXCEPT !.cr = Head(c3.cr_stack),
                         !.cr_stack = g_list_delete_link(@)]
        off == IF c4.cr = c4.initial_cr
               THEN rsvg_drawing_ctx_get_offset(c4)
               ELSE [x |-> 0, y |-> 0]
        ev1 == IF needs_destroy
               THEN Append(m.ev, [e |-> "filter_render", node |-> fgot.node,
                                  input |-> output, output |-> surface])
               ELSE m.ev
    IN [fast |-> FALSE,
        m |-> Machine(c4,
                      IF needs_destroy THEN rendered.cairo ELSE m.cairo,
                      Append(ev1, [e |-> "set_source_surface", cr |-> c4.cr,
                                   surface |-> surface,
                                   x |-> off.x, y |-> off.y])),
        loc |-> PopLocals(child_cr, lateclip, surface, needs_destroy, NULL)]

\* rsvg_cairo_pop_render_stack up to cairo_set_source_surface:
\* [fast, m, loc]; fast when the function has returned at the fast path
pop_render_stack_begin(m, st) ==
    LET lc == pop_render_stack_lateclip(
                  IF st.clip_path # NULL
                  THEN rsvg_drawing_ctx_acquire_node_of_type(m.ctx, st.clip_path,
                                                             RSVG_NODE_TYPE_CLIP_PATH)
                  ELSE [ctx |-> m.ctx, node |-> NULL])
    IN IF pop_fast_path(st, lc.lateclip)
       THEN [fast |-> TRUE, m |-> [m EXCEPT !.ctx = lc.ctx],
             loc |-> PopLocals(m.ctx.cr, lc.lateclip, NULL, FALSE, NULL)]
       ELSE pop_render_stack_filter(m, st, m.ctx.cr, lc.lateclip, lc.ctx)

\* faulty variant of pop_render_stack_composite: an opacity is painted
\* whether or not a mask is set
pop_render_stack_composite_paints_under_mask(m, st, lateclip) ==
    LET c1 == rsvg_drawing_ctx_release_node(m.ctx, lateclip)
        ev1 == Append(m.ev, [e |-> "set_operator", cr |-> c1.cr, op |-> st.comp_op])
        ev2 == IF st.opacity # OPAQUE
               THEN Append(ev1, [e |-> "paint_with_alpha", cr |-> c1.cr,
                                 opacity |-> st.opacity])
               ELSE ev1
    IN IF st.mask # NULL
       THEN LET got == rsvg_drawing_ctx_acquire_node_of_type(c1, st.mask,
                                                             RSVG_NODE_TYPE_MASK)
            IN [m |-> Machine(got.ctx, m.cairo, ev2), mask_node |-> got.node]
       ELSE IF st.opacity # OPAQUE
       THEN [m |-> Machine(c1, m.cairo, ev2), mask_node |-> NULL]
       ELSE [m |-> Machine(c1, m.cairo, Append(ev1, [e |-> "paint", cr |-> c1.cr])),
             mask_node |-> NULL]

\* faulty variant of pop_render_stack_composite: the late clip path is
\* released after the mask is acquired
pop_render_stack_composite_releases_late(m, st, lateclip) ==
    LET ev1 == Append(m.ev, [e |-> "set_operator", cr |-> m.ctx.cr, op |-> st.comp_op])
    IN IF st.mask # NULL
       THEN LET got == rsvg_drawing_ctx_acquire_node_of_type(m.ctx, st.mask,
                                                             RSVG_NODE_TYPE_MASK)
            IN [m |-> Machine(rsvg_drawing_ctx_release_node(got.ctx, lateclip),
                              m.cairo, ev1),
                mask_node |-> got.node]
       ELSE IF st.opacity # OPAQUE
       THEN [m |-> Machine(rsvg_drawing_ctx_release_node(m.ctx, lateclip), m.cairo,
                           Append(ev1, [e |-> "paint_with_alpha", cr |-> m.ctx.cr,
                                        opacity |-> st.opacity])),
             mask_node |-> NULL]
       ELSE [m |-> Machine(rsvg_drawing_ctx_release_node(m.ctx, lateclip), m.cairo,
                           Append(ev1, [e |-> "paint", cr |-> m.ctx.cr])),
             mask_node |-> NULL]

\* rsvg_cairo_pop_render_stack from the release of the late clip path to
\* the compositing: [m, mask_node]; mask_node is the mask whose
\* rsvg_cairo_generate_mask is to run, or NULL
pop_render_stack_composite(m, st, lateclip) ==
    LET c1 == rsvg_drawing_ctx_release_node(m.ctx, lateclip)
        ev1 == Append(m.ev, [e |-> "set_operator", cr |-> c1.cr, op |-> st.comp_op])
    IN IF st.mask # NULL
       THEN LET got == rsvg_drawing_ctx_acquire_node_of_type(c1, st.mask,
                                                             RSVG_NODE_TYPE_MASK)
            IN [m |-> Machine(got.ctx, m.cairo, ev1), mask_node |-> got.node]
       ELSE IF st.opacity # OPAQUE
       THEN [m |-> Machine(c1, m.cairo,
                           Append(ev1, [e |-> "paint_with_alpha", cr |-> c1.cr,
                                        opacity |-> st.opacity])),
             mask_node |-> NULL]
       ELSE [m |-> Machine(c1, m.cairo, Append(ev1, [e |-> "paint", cr |-> c1.cr])),
             mask_node |-> NULL]

\* faulty variant of pop_render_stack_end: the cairo_t of the layer is not
\* destroyed
pop_render_stack_end_keeps_cr(m, loc) ==
    Machine(pop_bounding_box(rsvg_drawing_ctx_release_node(m.ctx, loc.mask_node)),
            IF loc.needs_destroy THEN cairo_surface_destroy(m.cairo, loc.surface)
            ELSE m.cairo,
            m.ev)

\* rsvg_cairo_pop_render_stack after the compositing
pop_render_stack_end(m, loc) ==
    LET c1 == rsvg_drawing_ctx_release_node(m.ctx, loc.mask_node)
        b1 == cairo_destroy(m.cairo, loc.child_cr)
        b2 == IF loc.needs_destroy THEN cairo_surface_destroy(b1, loc.surface) ELSE b1
    IN Machine(pop_bounding_box(c1), b2,
               Append(m.ev, [e |-> "destroy", cr |-> loc.child_cr]))

\* faulty variant of draw_node_from_stack_enter: the node is drawn whatever
\* node drawsub_stack names
draw_node_from_stack_enter_any(c, node, visible) ==
    IF visible
    THEN [drawn |-> TRUE,
          ctx |-> rsvg_drawing_ctx_state_push(
                      IF c.drawsub_stack # <<>>
                      THEN [c EXCEPT !.drawsub_stack = Tail(@)]
                      ELSE c),
          stacksave |-> c.drawsub_stack]
    ELSE [drawn |-> FALSE, ctx |-> c, stacksave |-> c.drawsub_stack]

\* faulty variant of draw_node_from_stack_enter: an invisible node leaves
\* drawsub_stack without its head
draw_node_from_stack_enter_invisible_consumes(c, node, visible) ==
    LET stacksave == c.drawsub_stack
    IN IF stacksave # <<>> /\ Head(stacksave) # node
       THEN [drawn |-> FALSE, ctx |-> c, stacksave |-> stacksave]
       ELSE LET c1 == IF stacksave # <<>>
                      THEN [c EXCEPT !.drawsub_stack = Tail(stacksave)]
                      ELSE c
            IN IF visible
               THEN [drawn |-> TRUE, ctx |-> rsvg_drawing_ctx_state_push(c1),
                     stacksave |-> stacksave]
               ELSE [drawn |-> FALSE, ctx |-> c1, stacksave |-> stacksave]

\* rsvg_drawing_ctx_draw_node_from_stack up to rsvg_node_draw:
\* [drawn, ctx, stacksave]
draw_node_from_stack_enter(c, node, visible) ==
    LET stacksave == c.drawsub_stack
    IN IF stacksave # <<>> /\ Head(stacksave) # node
       THEN [drawn |-> FALSE, ctx |-> c, stacksave |-> stacksave]
       ELSE LET c1 == IF stacksave # <<>>
                      THEN [c EXCEPT !.drawsub_stack = Tail(stacksave)]
                      ELSE c
            IN IF visible
               THEN [drawn |-> TRUE, ctx |-> rsvg_drawing_ctx_state_push(c1),
                     stacksave |-> stacksave]
               ELSE [drawn |-> FALSE, ctx |-> [c1 EXCEPT !.drawsub_stack = stacksave],
                     stacksave |-> stacksave]

\* rsvg_drawing_ctx_draw_node_from_stack after rsvg_node_draw
draw_node_from_stack_leave(c, stacksave) ==
    [rsvg_drawing_ctx_state_pop(c) EXCEPT !.drawsub_stack = stacksave]

\* the empty path stands for no node
rsvg_node_get_parent(node) == SubSeq(node, 1, Len(node) - 1)

RECURSIVE AncestorsOnto(_, _)
AncestorsOnto(stack, node) ==
    IF node = <<>> THEN stack
    ELSE AncestorsOnto(g_list_prepend(stack, node), rsvg_node_get_parent(node))

rsvg_drawing_ctx_add_node_and_ancestors_to_stack(c, node) ==
    [c EXCEPT !.drawsub_stack = AncestorsOnto(@, node)]

----------------------------------------------------------------------------
(* The render pass.  `frames` is the C call stack: a "node" frame for      *)
(* every rsvg_drawing_ctx_draw_node_from_stack that is drawing its node, a *)
(* "clip" frame for every rsvg_cairo_clip and a "mask" frame for every     *)
(* rsvg_cairo_generate_mask that is drawing children.  The tree walker     *)
(* pushes a layer, paints the element, draws its children and pops the     *)
(* layer.  The elements of the rendered tree are made up as they are       *)
(* drawn: each is drawn once, so that choosing its style when it is drawn  *)
(* is choosing the document.                                               *)

\* the walk's own document: nominal size, and the matrix of the caller's cr
DocData == [width |-> 2, height |-> 1, em |-> 2, ex |-> 1]
DocAffine == Matrix(1, 1, 1, 2)

NullBbox == [null |-> TRUE]

Top == frames[Len(frames)]
Rest == SubSeq(frames, 1, Len(frames) - 1)
WithTop(f) == [frames EXCEPT ![Len(frames)] = f]

Did(op) == [op |-> op]

\* what rsvg_drawing_ctx_draw_node_from_stack finds when it is entered
Entry(c) == [drawsub_stack |-> c.drawsub_stack, depth |-> Len(c.state)]

NodeFrame(path, style, clipping, stacksave) ==
    [k |-> "node", path |-> path, style |-> style, clipping |-> clipping,
     stacksave |-> stacksave, entry |-> Entry(ctx), pc |-> "push", kids |-> 0,
     pre_push |-> NULL, pre_pop |-> NULL, ev |-> <<>>, loc |-> NULL]

\* the extents an element inserts for itself: outline, and ink with stroke
OwnBbox(c) == BboxOf(Rect(0, 0, 1, 1), rsvg_state_get_affine(c.state))
OwnInkBbox(c) == BboxOf(Rect(-1, -1, 3, 3), rsvg_state_get_affine(c.state))

\* rsvg_state_reinherit_top: the element's own transform joins the state
rsvg_state_reinherit_top(c) ==
    [c EXCEPT !.state = rsvg_state_set_affine(@,
                            cairo_matrix_translate(rsvg_state_get_affine(@), 1, 0))]

\* the call rsvg_drawing_ctx_draw_node_from_stack (ctx, node, 0, clipping),
\* made with callers as the frames of the callers
CallDraw(callers, path, style, clipping) ==
    LET r == draw_node_from_stack_enter(ctx, path, style.visible)
    IN /\ ctx' = IF r.drawn THEN rsvg_state_reinherit_top(r.ctx) ELSE r.ctx
       /\ frames' = IF r.drawn
                    THEN Append(callers, NodeFrame(path, style, clipping, r.stacksave))
                    ELSE callers
       /\ last' = [op |-> "draw_node", path |-> path, drawn |-> r.drawn,
                   visible |-> style.visible, entry |-> Entry(ctx)]
       /\ UNCHANGED <<cairo, faults>>

\* the shape of the rendered tree: its elements, by path
Tree == {<<1>>, <<1, 1>>, <<1, 2>>, <<1, 1, 1>>}

IsPrefix(p, q) == Len(p) <= Len(q) /\ SubSeq(q, 1, Len(p)) = p

KidsOf(path) ==
    Cardinality({q \in Tree : Len(q) = Len(path) + 1 /\ IsPrefix(path, q)})

\* an element of the rendered tree that has children is a group, and a
\* group carries one of NestedStyles; any other element is a shape
IsGroup(fr) ==
    fr.path[1] = 1 /\ KidsOf(fr.path) > 0 /\ fr.style \in NestedStyles

\* the subtrees a render may be restricted to
Restrictions == {<<1, 1>>, <<1, 2>>}

Init ==
    /\ proc = "live"
    /\ ctx = rsvg_drawing_ctx_new(InitialCr, DocData, DocAffine)
    /\ cairo = InitialCairo
    /\ frames = <<>>
    /\ faults = 0
    /\ last = Did("new")
    /\ steps = 0
    /\ pixels = <<>>
    /\ grad = NULL

\* rsvg_handle_render_cairo_sub: only one subtree is to be drawn
Restrict ==
    /\ steps' = steps + 1
    /\ UNCHANGED <<pixels, grad>>
    /\ proc = "live" /\ ctx.drawsub_stack = <<>>
    /\ \E node \in Restrictions :
          ctx' = rsvg_drawing_ctx_add_node_and_ancestors_to_stack(ctx, node)
    /\ last' = Did("restrict")
    /\ UNCHANGED <<proc, cairo, frames, faults>>

DrawRoot ==
    /\ steps' = steps + 1
    /\ UNCHANGED <<pixels, grad>>
    /\ proc = "live"
    /\ proc' = "rendering"
    /\ \E style \in (IF ctx.drawsub_stack = <<>> THEN TopStyles ELSE NestedStyles) :
          CallDraw(<<>>, <<1>>, style, FALSE)

\* an element of the rendered tree draws its next child
DrawChild ==
    /\ steps' = steps + 1
    /\ UNCHANGED <<pixels, grad>>
    /\ proc = "rendering" /\ frames # <<>>
    /\ Top.k = "node" /\ Top.pc = "kids"
    /\ IsGroup(Top) /\ Top.kids < KidsOf(Top.path)
    /\ \E style \in NestedStyles :
          CallDraw(WithTop([Top EXCEPT !.kids = @ + 1]),
                   Append(Top.path, Top.kids + 1), style, Top.clipping)
    /\ UNCHANGED proc

\* faulty variant of DrawDefKid: the children of a clip path are drawn as
\* those of a mask are, with clipping FALSE
DrawDefKid_never_clipping ==
    /\ steps' = steps + 1
    /\ UNCHANGED <<pixels, grad>>
    /\ proc = "rendering" /\ frames # <<>>
    /\ Top.k \in {"clip", "mask"}
    /\ Top.kids < Len(DefKids(Top.node))
    /\ CallDraw(WithTop([Top EXCEPT !.kids = @ + 1]),
                DefKidPath(Top.node, Top.kids + 1),
                DefKids(Top.node)[Top.kids + 1],
                FALSE)
    /\ UNCHANGED proc

\* rsvg_node_draw_children of a clip path or a mask: the next child
DrawDefKid ==
    /\ steps' = steps + 1
    /\ UNCHANGED <<pixels, grad>>
    /\ proc = "rendering" /\ frames # <<>>
    /\ Top.k \in {"clip", "mask"}
    /\ Top.kids < Len(DefKids(Top.node))
    /\ CallDraw(WithTop([Top EXCEPT !.kids = @ + 1]),
                DefKidPath(Top.node, Top.kids + 1),
                DefKids(Top.node)[Top.kids + 1],
                Top.k = "clip")
    /\ UNCHANGED proc

\* whether a surface allocation succeeds
AllocOutcomes(allocates) ==
    IF allocates /\ faults < MaxFaults THEN {TRUE, FALSE} ELSE {TRUE}

\* rsvg_cairo_push_render_stack runs to its end for the frame fr
PushFinish(fr, c, node) ==
    LET lateclip == node # NULL
                    /\ rsvg_node_clip_path_get_units(node) = objectBoundingBox
    IN \E ok \in AllocOutcomes(~ push_fast_path(fr.style, lateclip)) :
          LET r == push_render_stack_rest(Machine(c, cairo, fr.ev), fr.style, node, ok)
          IN /\ ctx' = r.m.ctx
             /\ cairo' = r.m.cairo
             /\ frames' = WithTop([fr EXCEPT !.pc = "content", !.ev = r.m.ev])
             /\ faults' = IF ok THEN faults ELSE faults + 1
             /\ last' = [op |-> "push_layer", style |-> fr.style, clipping |-> FALSE,
                         fast |-> r.fast, pre |-> fr.pre_push, ev |-> r.m.ev]
             /\ UNCHANGED proc

\* rsvg_cairo_push_discrete_layer (ctx, clipping)
PushLayer ==
    /\ steps' = steps + 1
    /\ UNCHANGED <<pixels, grad>>
    /\ proc = "rendering" /\ frames # <<>>
    /\ Top.k = "node" /\ Top.pc = "push"
    /\ LET fr == [Top EXCEPT !.pre_push = [ctx |-> ctx, cairo |-> cairo]]
       IN IF Top.clipping
          THEN /\ frames' = WithTop([fr EXCEPT !.pc = "content"])
               /\ last' = [op |-> "push_layer", style |-> fr.style, clipping |-> TRUE,
                           fast |-> FALSE, pre |-> fr.pre_push, ev |-> fr.ev]
               /\ UNCHANGED <<proc, ctx, cairo, faults>>
          ELSE LET got == push_render_stack_acquire(ctx, fr.style)
               IN IF got.node # NULL
                     /\ rsvg_node_clip_path_get_units(got.node) = userSpaceOnUse
                  THEN LET cb == rsvg_cairo_clip_begin(got.ctx, got.node, NullBbox, "push")
                       IN /\ ctx' = cb.ctx
                          /\ frames' = Append(WithTop([fr EXCEPT !.pc = "push_clip",
                                                                 !.loc = got.node]),
                                              cb.frame)
                          /\ last' = Did("clip_begin")
                          /\ UNCHANGED <<proc, cairo, faults>>
                  ELSE PushFinish(fr, got.ctx, got.node)

\* rsvg_cairo_push_render_stack goes on after rsvg_cairo_clip
PushResume ==
    /\ steps' = steps + 1
    /\ UNCHANGED <<pixels, grad>>
    /\ proc = "rendering" /\ frames # <<>>
    /\ Top.k = "node" /\ Top.pc = "push_clip"
    /\ PushFinish(Top, ctx, Top.loc)

\* the element draws itself: a shape inserts its extents into the current
\* boxes, a group has nothing of its own to draw
PaintContent ==
    /\ steps' = steps + 1
    /\ UNCHANGED <<pixels, grad>>
    /\ proc = "rendering" /\ frames # <<>>
    /\ Top.k = "node" /\ Top.pc = "content"
    /\ ctx' = IF IsGroup(Top) THEN ctx
              ELSE rsvg_drawing_ctx_insert_ink_bbox(
                       rsvg_drawing_ctx_insert_bbox(ctx, OwnBbox(ctx)),
                       OwnInkBbox(ctx))
    /\ last' = [op |-> "paint", paints |-> ~ IsGroup(Top)]
    /\ frames' = WithTop([Top EXCEPT !.pc = "kids"])
    /\ UNCHANGED <<proc, cairo, faults>>

\* rsvg_cairo_pop_render_stack runs to its end for the frame fr; closed
\* are the boxes of the layer as pop_bounding_box finds them
PopEnd(fr, m, fast) ==
    LET r == IF fast THEN m ELSE pop_render_stack_end(m, fr.loc)
    IN /\ ctx' = r.ctx
       /\ cairo' = r.cairo
       /\ frames' = WithTop([fr EXCEPT !.pc = "leave", !.ev = r.ev])
       /\ last' = [op |-> "pop_layer", style |-> fr.style, clipping |-> FALSE,
                   fast |-> fast, pre |-> fr.pre_pop, pre_push |-> fr.pre_push,
                   closed |-> [bbox |-> m.ctx.bbox, ink_bbox |-> m.ctx.ink_bbox],
                   ev |-> r.ev]
       /\ UNCHANGED proc

\* rsvg_cairo_pop_render_stack from the release of the late clip path on
PopComposite(fr, m) ==
    LET q == pop_render_stack_composite(m, fr.style, fr.loc.lateclip)
        fr1 == [fr EXCEPT !.loc.mask_node = q.mask_node]
    IN \E ok \in AllocOutcomes(q.mask_node # NULL) :
          /\ faults' = IF ok THEN faults ELSE faults + 1
          /\ IF q.mask_node = NULL
             THEN PopEnd(fr1, q.m, FALSE)
             ELSE LET g == rsvg_cairo_generate_mask_begin(q.m, q.m.ctx.cr, q.mask_node,
                                                          fr.style.opacity, ok)
                  IN IF g.started
                     THEN /\ ctx' = g.m.ctx
                          /\ cairo' = g.m.cairo
                          /\ frames' = Append(WithTop([fr1 EXCEPT !.pc = "pop_mask",
                                                                  !.ev = g.m.ev]),
                                              g.frame)
                          /\ last' = Did("generate_mask_begin")
                          /\ UNCHANGED proc
                     ELSE PopEnd(fr1, g.m, FALSE)

\* rsvg_cairo_pop_render_stack goes on from r, the outcome of
\* pop_render_stack_begin, for the frame fr
PopBegun(fr, r) ==
    IF r.fast
    THEN PopEnd(fr, r.m, TRUE) /\ UNCHANGED faults
    ELSE IF r.loc.lateclip # NULL
    THEN LET cb == rsvg_cairo_clip_begin(r.m.ctx, r.loc.lateclip, r.m.ctx.bbox, "pop")
         IN /\ ctx' = cb.ctx
            /\ cairo' = r.m.cairo
            /\ frames' = Append(WithTop([fr EXCEPT !.pc = "pop_clip", !.ev = r.m.ev]),
                                cb.frame)
            /\ last' = Did("clip_begin")
            /\ UNCHANGED <<proc, faults>>
    ELSE PopComposite(fr, r.m)

\* the frame of the element whose rsvg_cairo_pop_render_stack has run up to
\* cairo_set_source_surface with the outcome r
PopStart(r) ==
    PopBegun([Top EXCEPT !.pre_pop = [ctx |-> ctx, cairo |-> cairo], !.loc = r.loc], r)

\* rsvg_cairo_pop_discrete_layer (ctx, clipping)
PopLayer ==
    /\ steps' = steps + 1
    /\ UNCHANGED <<pixels, grad>>
    /\ proc = "rendering" /\ frames # <<>>
    /\ Top.k = "node" /\ Top.pc = "kids"
    /\ IsGroup(Top) => Top.kids = KidsOf(Top.path)
    /\ IF Top.clipping
       THEN /\ frames' = WithTop([Top EXCEPT !.pc = "leave",
                                             !.pre_pop = [ctx |-> ctx, cairo |-> cairo]])
            /\ last' = [op |-> "pop_layer", style |-> Top.style, clipping |-> TRUE,
                        fast |-> FALSE, pre |-> [ctx |-> ctx, cairo |-> cairo],
                        pre_push |-> Top.pre_push,
                        closed |-> [bbox |-> ctx.bbox, ink_bbox |-> ctx.ink_bbox],
                        ev |-> Top.ev]
            /\ UNCHANGED <<proc, ctx, cairo, faults>>
       ELSE PopStart(pop_render_stack_begin(Machine(ctx, cairo, Top.ev), Top.style))

\* rsvg_cairo_pop_render_stack goes on after rsvg_cairo_clip
PopAfterClip ==
    /\ steps' = steps + 1
    /\ UNCHANGED <<pixels, grad>>
    /\ proc = "rendering" /\ frames # <<>>
    /\ Top.k = "node" /\ Top.pc = "pop_clip"
    /\ PopComposite(Top, Machine(ctx, cairo, Top.ev))

\* rsvg_cairo_pop_render_stack goes on after rsvg_cairo_generate_mask
PopAfterMask ==
    /\ steps' = steps + 1
    /\ UNCHANGED <<pixels, grad>>
    /\ proc = "rendering" /\ frames # <<>>
    /\ Top.k = "node" /\ Top.pc = "pop_mask"
    /\ PopEnd(Top, Machine(ctx, cairo, Top.ev), FALSE)
    /\ UNCHANGED faults

\* the children of the clip path are drawn: rsvg_cairo_clip returns
ClipEnd ==
    /\ steps' = steps + 1
    /\ UNCHANGED <<pixels, grad>>
    /\ proc = "rendering" /\ frames # <<>>
    /\ Top.k = "clip" /\ Top.kids = Len(DefKids(Top.node))
    /\ LET caller == frames[Len(frames) - 1]
           r == rsvg_cairo_clip_end(Machine(ctx, cairo, caller.ev), Top)
       IN /\ proc' = IF r.ok THEN proc ELSE "aborted"
          /\ ctx' = r.m.ctx
          /\ frames' = Append(SubSeq(frames, 1, Len(frames) - 2),
                              [caller EXCEPT !.ev = r.m.ev])
          /\ last' = [op |-> "clip", node |-> Top.node, at |-> Top.at,
                      orig_bbox |-> Top.orig_bbox, orig_ink_bbox |-> Top.orig_ink_bbox,
                      entry |-> Top.entry,
                      left |-> [bbox |-> ctx.bbox, ink_bbox |-> ctx.ink_bbox]]
    /\ UNCHANGED <<cairo, faults>>

\* the children of the mask are drawn: rsvg_cairo_generate_mask returns
MaskEnd ==
    /\ steps' = steps + 1
    /\ UNCHANGED <<pixels, grad>>
    /\ proc = "rendering" /\ frames # <<>>
    /\ Top.k = "mask" /\ Top.kids = Len(DefKids(Top.node))
    /\ LET caller == frames[Len(frames) - 1]
           m == rsvg_cairo_generate_mask_end(Machine(ctx, cairo, caller.ev), Top)
       IN /\ ctx' = m.ctx
          /\ cairo' = m.cairo
          /\ frames' = Append(SubSeq(frames, 1, Len(frames) - 2),
                              [caller EXCEPT !.ev = m.ev])
          /\ last' = [op |-> "generate_mask", node |-> Top.node]
    /\ UNCHANGED <<proc, faults>>

\* rsvg_node_draw has returned into rsvg_drawing_ctx_draw_node_from_stack
LeaveNode ==
    /\ steps' = steps + 1
    /\ UNCHANGED <<pixels, grad>>
    /\ proc = "rendering" /\ frames # <<>>
    /\ Top.k = "node" /\ Top.pc = "leave"
    /\ ctx' = draw_node_from_stack_leave(ctx, Top.stacksave)
    /\ frames' = Rest
    /\ last' = [op |-> "leave_node", path |-> Top.path, ev |-> Top.ev,
                entry |-> Top.entry]
    /\ UNCHANGED <<proc, cairo, faults>>

\* the walk has returned to the renderer
EndRender ==
    /\ steps' = steps + 1
    /\ UNCHANGED <<pixels, grad>>
    /\ proc = "rendering" /\ frames = <<>>
    /\ proc' = "rendered"
    /\ last' = [op |-> "render",
                ev |-> IF last.op = "leave_node" THEN last.ev ELSE <<>>]
    /\ UNCHANGED <<ctx, cairo, frames, faults>>

\* rsvg_drawing_ctx_free after the render
Free ==
    /\ steps' = steps + 1
    /\ UNCHANGED <<pixels, grad>>
    /\ proc = "rendered"
    /\ LET r == rsvg_drawing_ctx_free(ctx)
       IN /\ proc' = r.proc
          /\ ctx' = [ctx EXCEPT !.glog = r.glog]
          /\ last' = [op |-> "free", failed |-> r.failed, pre |-> ctx, ev |-> last.ev]
    /\ UNCHANGED <<cairo, frames, faults>>

Next ==
    \/ Restrict
    \/ DrawRoot
    \/ DrawChild
    \/ DrawDefKid
    \/ PushLayer
    \/ PushResume
    \/ PaintContent
    \/ PopLayer
    \/ PopAfterClip
    \/ PopAfterMask
    \/ ClipEnd
    \/ MaskEnd
    \/ LeaveNode
    \/ EndRender
    \/ Free

Spec == Init /\ [][Next]_vars

(***************************************************************************)
(* The drawing context under an arbitrary caller: each action is one call  *)
(* of the interface, with any argument and in any order.                   *)
(***************************************************************************)

\* the urls and nodes a caller passes
ApiUrls == {NULL, "#nope", "#M1", "doc.svg#M1", "#F"}
ApiNodes == {NULL, "M1", "F", "M2"}
ApiTypes == {RSVG_NODE_TYPE_MASK, RSVG_NODE_TYPE_FILTER}

\* the styles of the layers a caller pushes: their push and pop call neither
\* rsvg_cairo_clip nor rsvg_cairo_generate_mask
ApiStyles ==
    {DefaultStyle,
     Style(NULL, NULL, NULL, 128, CAIRO_OPERATOR_OVER, RSVG_ENABLE_BACKGROUND_ACCUMULATE,
           TRUE),
     Style(NULL, "#F", NULL, OPAQUE, CAIRO_OPERATOR_OVER,
           RSVG_ENABLE_BACKGROUND_ACCUMULATE, TRUE)}

\* the style of an element that gets a layer for its opacity
EnclosingStyle ==
    Style(NULL, NULL, NULL, 128, CAIRO_OPERATOR_OVER, RSVG_ENABLE_BACKGROUND_ACCUMULATE,
          TRUE)

\* rsvg_cairo_push_render_stack for a state without clip path
push_render_stack(m, st) ==
    push_render_stack_rest(m, st, NULL, TRUE).m

\* rsvg_cairo_pop_render_stack from cairo_set_operator on, for a state
\* without mask, b being the outcome of pop_render_stack_begin
pop_render_stack_finish(b, st) ==
    IF b.fast THEN b.m
    ELSE pop_render_stack_end(pop_render_stack_composite(b.m, st, NULL).m, b.loc)

\* rsvg_cairo_pop_render_stack for a state without clip path and mask
pop_render_stack(m, st) ==
    pop_render_stack_finish(pop_render_stack_begin(m, st), st)

ApiInit ==
    /\ proc = "none"
    /\ ctx = NoCtx
    /\ cairo = InitialCairo
    /\ frames = <<>>
    /\ faults = 0
    /\ last = Did("init")
    /\ steps = 0
    /\ pixels = <<>>
    /\ grad = NULL

\* the outcome r of rsvg_drawing_ctx_new becomes the context
ApiCreated(r, w, h) ==
    /\ ctx' = r
    /\ proc' = IF r = NoCtx THEN "none" ELSE "live"
    /\ last' = [op |-> "new", width |-> w, height |-> h, cr |-> InitialCr]
    /\ UNCHANGED <<cairo, frames, faults>>

\* rsvg_drawing_ctx_new (cr, handle), the handle having any dimensions
ApiNew ==
    /\ UNCHANGED <<steps, pixels, grad>>
    /\ proc = "none"
    /\ \E w \in 0 .. MaxDim, h \in 0 .. MaxDim :
          ApiCreated(rsvg_drawing_ctx_new(InitialCr,
                                          [width |-> w, height |-> h, em |-> w, ex |-> h],
                                          DocAffine),
                     w, h)

\* the outcome got of an acquire becomes the context
ApiAcquired(got, url, type) ==
    /\ ctx' = got.ctx
    /\ last' = [op |-> "acquire", url |-> url, type |-> type, node |-> got.node,
                pre |-> ctx]
    /\ UNCHANGED <<proc, cairo, frames, faults>>

\* rsvg_drawing_ctx_acquire_node (ctx, url)
ApiAcquire ==
    /\ UNCHANGED <<steps, pixels, grad>>
    /\ proc = "live"
    /\ \E url \in ApiUrls :
          ApiAcquired(rsvg_drawing_ctx_acquire_node(ctx, url), url, NULL)

\* rsvg_drawing_ctx_acquire_node_of_type (ctx, url, type)
ApiAcquireOfType ==
    /\ UNCHANGED <<steps, pixels, grad>>
    /\ proc = "live"
    /\ \E url \in ApiUrls, type \in ApiTypes :
          ApiAcquired(rsvg_drawing_ctx_acquire_node_of_type(ctx, url, type), url, type)

\* rsvg_drawing_ctx_release_node (ctx, node)
ApiRelease ==
    /\ UNCHANGED <<steps, pixels, grad>>
    /\ proc = "live"
    /\ \E node \in ApiNodes :
          /\ ctx' = rsvg_drawing_ctx_release_node(ctx, node)
          /\ last' = [op |-> "release", node |-> node, pre |-> ctx]
    /\ UNCHANGED <<proc, cairo, frames, faults>>

\* the machine m is the outcome of a push or a pop
ApiLayered(m, op, style, fs) ==
    /\ ctx' = m.ctx
    /\ cairo' = m.cairo
    /\ frames' = fs
    /\ last' = [op |-> op, style |-> style, pre |-> [ctx |-> ctx, cairo |-> cairo]]
    /\ UNCHANGED <<proc, faults>>

\* rsvg_cairo_push_discrete_layer (ctx, FALSE)
ApiPush ==
    /\ UNCHANGED <<steps, pixels, grad>>
    /\ proc = "live" /\ Len(frames) < MaxApiLayers
    /\ \E style \in ApiStyles :
          ApiLayered(push_render_stack(Machine(ctx, cairo, <<>>), style),
                     "api_push", style, Append(frames, [k |-> "api", style |-> style]))

\* rsvg_cairo_pop_discrete_layer (ctx, FALSE), for the layer pushed last
ApiPop ==
    /\ UNCHANGED <<steps, pixels, grad>>
    /\ proc = "live" /\ frames # <<>>
    /\ Top.k = "api"
    /\ ApiLayered(pop_render_stack(Machine(ctx, cairo, <<>>), Top.style),
                  "api_pop", Top.style, Rest)

\* the outcome r of rsvg_drawing_ctx_free ends the context
ApiFreed(r) ==
    /\ proc' = r.proc
    /\ ctx' = [ctx EXCEPT !.glog = r.glog]
    /\ last' = [op |-> "free", failed |-> r.failed, pre |-> ctx]
    /\ UNCHANGED <<cairo, frames, faults>>

\* rsvg_drawing_ctx_free (ctx)
ApiFree ==
    /\ UNCHANGED <<steps, pixels, grad>>
    /\ proc = "live"
    /\ ApiFreed(rsvg_drawing_ctx_free(ctx))

ApiNext ==
    \/ ApiNew
    \/ ApiAcquire
    \/ ApiAcquireOfType
    \/ ApiRelease
    \/ ApiPush
    \/ ApiPop
    \/ ApiFree

ApiSpec == ApiInit /\ [][ApiNext]_vars

(***************************************************************************)
(* The view boxes of the drawing context under a caller that pushes and    *)
(* pops view boxes and layers and generates masks, each push matched by    *)
(* its pop.                                                                *)
(***************************************************************************)

\* the view box sizes (w, h) a caller passes
ApiSizes == {<<3, 2>>, <<2, 1>>}

\* the masks a caller has generated
ApiMasks == {"M1", "M2", "M3"}

\* what the caller of a push knows: the view box it is to get back
Saved(k) == [k |-> k, vb |-> ctx.vb, vb_stack |-> ctx.vb_stack]

\* rsvg_drawing_ctx_push_view_box (ctx, w, h)
ApiPushViewBox ==
    /\ UNCHANGED <<steps, pixels, grad>>
    /\ proc = "live" /\ Len(frames) < MaxApiFrames
    /\ \E size \in ApiSizes :
          /\ ctx' = rsvg_drawing_ctx_push_view_box(ctx, size[1], size[2])
          /\ frames' = Append(frames, [k |-> "vb", w |-> size[1], h |-> size[2],
                                       saved |-> Saved("vb")])
          /\ last' = [op |-> "push_view_box", w |-> size[1], h |-> size[2],
                      pre |-> ctx]
    /\ UNCHANGED <<proc, cairo, faults>>

\* rsvg_drawing_ctx_pop_view_box (ctx), for the view box pushed last
ApiPopViewBox ==
    /\ UNCHANGED <<steps, pixels, grad>>
    /\ proc = "live" /\ frames # <<>>
    /\ Top.k = "vb"
    /\ ctx' = rsvg_drawing_ctx_pop_view_box(ctx)
    /\ frames' = Rest
    /\ last' = [op |-> "pop_view_box", saved |-> Top.saved, pre |-> ctx]
    /\ UNCHANGED <<proc, cairo, faults>>

\* rsvg_cairo_generate_mask (ctx->cr, mask, ctx) up to the drawing of the
\* children of the mask, which the calls that follow make
ApiGenerateMaskBegin ==
    /\ UNCHANGED <<steps, pixels, grad>>
    /\ proc = "live" /\ Len(frames) < MaxApiFrames
    /\ \E mask \in ApiMasks, ok \in AllocOutcomes(TRUE) :
          LET g == rsvg_cairo_generate_mask_begin(Machine(ctx, cairo, <<>>), ctx.cr,
                                                  mask, OPAQUE, ok)
          IN /\ ctx' = g.m.ctx
             /\ cairo' = g.m.cairo
             /\ faults' = IF ok THEN faults ELSE faults + 1
             /\ frames' = IF g.started
                          THEN Append(frames, [k |-> "mask", fr |-> g.frame,
                                               saved |-> Saved("mask"),
                                               entry |-> ctx])
                          ELSE frames
             /\ last' = [op |-> "generate_mask_begin", node |-> mask,
                         started |-> g.started, saved |-> Saved("mask"), pre |-> ctx,
                         cairo |-> cairo, ev |-> g.m.ev]
    /\ UNCHANGED proc

\* rsvg_cairo_generate_mask from the return of the children on
ApiGenerateMaskEnd ==
    /\ UNCHANGED <<steps, pixels, grad>>
    /\ proc = "live" /\ frames # <<>>
    /\ Top.k = "mask"
    /\ LET m == rsvg_cairo_generate_mask_end(Machine(ctx, cairo, <<>>), Top.fr)
       IN /\ ctx' = m.ctx
          /\ cairo' = m.cairo
    /\ frames' = Rest
    /\ last' = [op |-> "generate_mask", node |-> Top.fr.node, saved |-> Top.saved,
                pre |-> ctx, entry |-> Top.entry]
    /\ UNCHANGED <<proc, faults>>

ViewBoxNext ==
    \/ ApiNew
    \/ ApiPush
    \/ ApiPop
    \/ ApiPushViewBox
    \/ ApiPopViewBox
    \/ ApiGenerateMaskBegin
    \/ ApiGenerateMaskEnd

ViewBoxSpec == ApiInit /\ [][ViewBoxNext]_vars

(***************************************************************************)
(* The cairo_t of the drawing context under a caller that has masks        *)
(* generated and nodes drawn to surfaces of their own, with elements drawn *)
(* in between.                                                             *)
(***************************************************************************)

\* the node a caller has drawn to a surface
ApiDrawable == <<1>>

\* rsvg_cairo_get_surface_of_node up to rsvg_node_draw of the drawable, a
\* visible node: [started, m, frame]; started is FALSE when the surface
\* allocation fails, and the function has then returned NULL
rsvg_cairo_get_surface_of_node_begin(m, drawable, width, height, ok) ==
    LET alloc == cairo_surface_create(m.cairo, ok)
    IN IF alloc.surface = NilSurface
       THEN [started |-> FALSE, m |-> m, frame |-> NULL]
       ELSE LET made == cairo_create(alloc.cairo, alloc.surface)
                c1 == [m.ctx EXCEPT !.cr = made.cr,
                                    !.initial_cr = made.cr,
                                    !.offset_x = 0,
                                    !.offset_y = 0,
                                    !.width = width,
                                    !.height = height]
                r == draw_node_from_stack_enter(c1, drawable, TRUE)
            IN [started |-> TRUE,
                m |-> Machine(r.ctx, made.cairo, m.ev),
                frame |-> [k |-> "surface", surface |-> alloc.surface,
                           stacksave |-> r.stacksave,
                           save_cr |-> m.ctx.cr,
                           save_initial_cr |-> m.ctx.initial_cr,
                           save_x |-> m.ctx.offset_x, save_y |-> m.ctx.offset_y,
                           save_w |-> m.ctx.width, save_h |-> m.ctx.height]]

\* faulty variant of rsvg_cairo_get_surface_of_node_end: initial_cr stays
\* the cairo_t of the surface
get_surface_of_node_end_keeps_initial_cr(m, fr) ==
    LET c1 == draw_node_from_stack_leave(m.ctx, fr.stacksave)
    IN [m |-> Machine([c1 EXCEPT !.cr = fr.save_cr,
                                 !.offset_x = fr.save_x,
                                 !.offset_y = fr.save_y,
                                 !.width = fr.save_w,
                                 !.height = fr.save_h],
                      cairo_destroy(m.cairo, c1.cr),
                      m.ev),
        surface |-> fr.surface]

\* rsvg_cairo_get_surface_of_node after rsvg_node_draw: [m, surface]
rsvg_cairo_get_surface_of_node_end(m, fr) ==
    LET c1 == draw_node_from_stack_leave(m.ctx, fr.stacksave)
    IN [m |-> Machine([c1 EXCEPT !.cr = fr.save_cr,
                                 !.initial_cr = fr.save_initial_cr,
                                 !.offset_x = fr.save_x,
                                 !.offset_y = fr.save_y,
                                 !.width = fr.save_w,
                                 !.height = fr.save_h],
                      cairo_destroy(m.cairo, c1.cr),
                      m.ev),
        surface |-> fr.surface]

\* rsvg_cairo_get_surface_of_node (ctx, drawable, width, height) up to the
\* drawing of the node, which the calls that follow make
ApiGetSurfaceOfNodeBegin ==
    /\ UNCHANGED <<steps, pixels, grad>>
    /\ proc = "live" /\ Len(frames) < MaxApiFrames
    /\ \E size \in ApiSizes, ok \in AllocOutcomes(TRUE) :
          LET g == rsvg_cairo_get_surface_of_node_begin(Machine(ctx, cairo, <<>>),
                                                        ApiDrawable, size[1], size[2],
                                                        ok)
          IN /\ ctx' = g.m.ctx
             /\ cairo' = g.m.cairo
             /\ faults' = IF ok THEN faults ELSE faults + 1
             /\ frames' = IF g.started
                          THEN Append(frames, [k |-> "surface", fr |-> g.frame,
                                               entry |-> ctx])
                          ELSE frames
             /\ last' = [op |-> "get_surface_of_node_begin", started |-> g.started,
                         width |-> size[1], height |-> size[2],
                         pre |-> ctx, cairo |-> cairo, ev |-> g.m.ev]
    /\ UNCHANGED proc

\* rsvg_cairo_get_surface_of_node from the return of rsvg_node_draw on; the
\* caller destroys the surface it is returned when it is done with it
ApiGetSurfaceOfNodeEnd ==
    /\ UNCHANGED <<steps, pixels, grad>>
    /\ proc = "live" /\ frames # <<>>
    /\ Top.k = "surface"
    /\ LET r == rsvg_cairo_get_surface_of_node_end(Machine(ctx, cairo, <<>>), Top.fr)
       IN /\ ctx' = r.m.ctx
          /\ cairo' = cairo_surface_destroy(r.m.cairo, r.surface)
          /\ last' = [op |-> "get_surface_of_node", surface |-> r.surface,
                      returned |-> r.m.cairo, pre |-> ctx, entry |-> Top.entry]
    /\ frames' = Rest
    /\ UNCHANGED <<proc, faults>>

\* an element with an opacity is drawn inside a mask or a drawable: its
\* push, its extents and its pop
ApiDrawElement ==
    /\ UNCHANGED <<steps, pixels, grad>>
    /\ proc = "live" /\ frames # <<>>
    /\ Top.k \in {"mask", "surface"}
    /\ \E ok \in AllocOutcomes(TRUE) :
          LET pushed == push_render_stack_rest(Machine(ctx, cairo, <<>>),
                                               EnclosingStyle, NULL, ok).m
              drawn == [pushed EXCEPT !.ctx = rsvg_drawing_ctx_insert_bbox(
                                                  @, OwnBbox(pushed.ctx))]
              popped == pop_render_stack(drawn, EnclosingStyle)
          IN /\ ctx' = popped.ctx
             /\ cairo' = popped.cairo
             /\ faults' = IF ok THEN faults ELSE faults + 1
             /\ last' = [op |-> "draw_element", ev |-> popped.ev, pre |-> ctx,
                         cairo |-> cairo]
    /\ UNCHANGED <<proc, frames>>

\* the context of a document of DocData, made on a cairo_t with an offset
TargetInit ==
    /\ proc = "live"
    /\ ctx = rsvg_drawing_ctx_new(InitialCr, DocData, DocAffine)
    /\ cairo = InitialCairo
    /\ frames = <<>>
    /\ faults = 0
    /\ last = Did("init")
    /\ steps = 0
    /\ pixels = <<>>
    /\ grad = NULL

TargetNext ==
    \/ ApiGenerateMaskBegin
    \/ ApiGenerateMaskEnd
    \/ ApiGetSurfaceOfNodeBegin
    \/ ApiGetSurfaceOfNodeEnd
    \/ ApiDrawElement

TargetSpec == TargetInit /\ [][TargetNext]_vars

(***************************************************************************)
(* The conversions of pixel data.  An image is a format and its pixels: a  *)
(* pixel of a GdkPixbuf with four channels is its bytes r, g, b and a,     *)
(* not premultiplied; a pixel of a cairo image surface of format ARGB32 is *)
(* a guint32, alpha in the most significant byte, colours premultiplied.   *)
(* A guint32 is kept as its two halves of 16 bits.                         *)
(***************************************************************************)

Word(hi, lo) == [hi |-> hi, lo |-> lo]

Rgba(r, g, b, a) == [r |-> r, g |-> g, b |-> b, a |-> a]

\* the guint32 a << 24 | r << 16 | g << 8 | b
Argb(a, r, g, b) == Word(a * 256 + r, g * 256 + b)

\* (word >> shift) & 0xff, for the shifts 24, 16, 8 and 0
Byte(word, shift) ==
    CASE shift = 24 -> word.hi \div 256
      [] shift = 16 -> word.hi % 256
      [] shift = 8 -> word.lo \div 256
      [] OTHER -> word.lo % 256

\* the product x * k in guint32, x being below 2^31 and k below 2^8: the
\* bits of the product from 2^32 on are lost
UInt32Times(x, k) ==
    Word(((x \div 65536) * k + ((x % 65536) * k) \div 65536) % 65536,
         ((x % 65536) * k) % 65536)

\* the value a guchar takes of an unsigned value
UChar(x) == x % 256

Image(format, data) == [format |-> format, data |-> data]

\* faulty variant of MULT: the product is not rounded
MULT_truncating(c, a) ==
    UChar((((c * a) \div 256) + c * a) \div 256)

\* MULT (d, c, a, t): t = c * a + 0x7f; d = ((t >> 8) + t) >> 8
MULT(c, a) ==
    UChar((((c * a + 127) \div 256) + (c * a + 127)) \div 256)

\* rsvg_cairo_surface_from_pixbuf, the pixels of a pixbuf of four channels
rsvg_cairo_surface_from_pixbuf(pixbuf) ==
    Image("ARGB32",
          [i \in DOMAIN pixbuf.data |->
              Argb(pixbuf.data[i].a,
                   MULT(pixbuf.data[i].r, pixbuf.data[i].a),
                   MULT(pixbuf.data[i].g, pixbuf.data[i].a),
                   MULT(pixbuf.data[i].b, pixbuf.data[i].a))])

\* what convert_alpha writes for one pixel, with the divisors of the
\* divisions it has evaluated for it
Converted(r, g, b, a, divisors) ==
    [bytes |-> Rgba(UChar(r), UChar(g), UChar(b), UChar(a)), divisors |-> divisors]

\* faulty variant of convert_alpha: a pixel of alpha 0 is divided like any
\* other
convert_alpha_unguarded(src_data) ==
    [x \in DOMAIN src_data |->
        Converted(IF Byte(src_data[x], 24) = 0 THEN 255
                  ELSE (Byte(src_data[x], 16) * 255) \div (Byte(src_data[x], 24)),
                  IF Byte(src_data[x], 24) = 0 THEN 255
                  ELSE (Byte(src_data[x], 8) * 255) \div (Byte(src_data[x], 24)),
                  IF Byte(src_data[x], 24) = 0 THEN 255
                  ELSE (Byte(src_data[x], 0) * 255) \div (Byte(src_data[x], 24)),
                  Byte(src_data[x], 24),
                  <<Byte(src_data[x], 24), Byte(src_data[x], 24),
                    Byte(src_data[x], 24)>>)]

\* faulty variant of convert_alpha: the quotient is not rounded
convert_alpha_truncating(src_data) ==
    [x \in DOMAIN src_data |->
        IF Byte(src_data[x], 24) = 0
        THEN Converted(0, 0, 0, 0, <<>>)
        ELSE Converted((Byte(src_data[x], 16) * 255) \div (Byte(src_data[x], 24)),
                       (Byte(src_data[x], 8) * 255) \div (Byte(src_data[x], 24)),
                       (Byte(src_data[x], 0) * 255) \div (Byte(src_data[x], 24)),
                       Byte(src_data[x], 24),
                       <<Byte(src_data[x], 24), Byte(src_data[x], 24),
                         Byte(src_data[x], 24)>>)]

\* convert_alpha: alpha = src[x] >> 24; the colours of a pixel of alpha 0
\* are 0, those of any other are (colour * 255 + alpha / 2) / alpha
convert_alpha(src_data) ==
    [x \in DOMAIN src_data |->
        IF Byte(src_data[x], 24) = 0
        THEN Converted(0, 0, 0, Byte(src_data[x], 24), <<>>)
        ELSE Converted(
                 (Byte(src_data[x], 16) * 255 + (Byte(src_data[x], 24)) \div 2)
                     \div (Byte(src_data[x], 24)),
                 (Byte(src_data[x], 8) * 255 + (Byte(src_data[x], 24)) \div 2)
                     \div (Byte(src_data[x], 24)),
                 (Byte(src_data[x], 0) * 255 + (Byte(src_data[x], 24)) \div 2)
                     \div (Byte(src_data[x], 24)),
                 Byte(src_data[x], 24),
                 <<Byte(src_data[x], 24), Byte(src_data[x], 24),
                   Byte(src_data[x], 24)>>)]

\* rsvg_cairo_surface_to_pixbuf of a surface that has alpha
rsvg_cairo_surface_to_pixbuf(surface) ==
    Image("pixbuf", [x \in DOMAIN surface.data |-> convert_alpha(surface.data)[x].bytes])

\* faulty variant of mask_luminance: blue has no weight
mask_luminance_without_blue(data, opacity) ==
    [i \in DOMAIN data |->
        UInt32Times(Byte(data[i], 16) * 14042 + Byte(data[i], 8) * 47240, opacity)]

\* faulty variant of mask_luminance: the weight of red is rounded up, to
\* 14043
mask_luminance_red_rounded_up(data, opacity) ==
    [i \in DOMAIN data |->
        UInt32Times(Byte(data[i], 16) * 14043 + Byte(data[i], 8) * 47240
                    + Byte(data[i], 0) * 4769,
                    opacity)]

\* rsvg_cairo_generate_mask, the loop over the pixels of the mask surface:
\* *pixel = (R * 14042 + G * 47240 + B * 4769) * opacity, in guint32
mask_luminance(data, opacity) ==
    [i \in DOMAIN data |->
        UInt32Times(Byte(data[i], 16) * 14042 + Byte(data[i], 8) * 47240
                    + Byte(data[i], 0) * 4769,
                    opacity)]

\* the values of a guchar
Bytes == 0 .. 255

\* the pixbufs that are loaded: every colour value with every alpha, in
\* each of the three colour channels
PixbufImages ==
    {Image("pixbuf", <<Rgba(c, 255 - c, (c + a) % 256, a)>>) : c \in Bytes, a \in Bytes}

\* the surfaces that have been rendered: every gray, and colours, opaque,
\* transparent and in between
SurfaceImages ==
    {Image("ARGB32", <<Argb(a, v, v, v)>>) : a \in {0, 255}, v \in Bytes}
    \cup {Image("ARGB32", <<Argb(a, v, 255 - v, 2)>>) : a \in {0, 1, 128, 255}, v \in Bytes}

\* the opacities of the elements that refer to a mask
MaskOpacities == {0, 128, OPAQUE}

PixelInit ==
    /\ proc = "pixels"
    /\ ctx = NoCtx
    /\ cairo = InitialCairo
    /\ frames = <<>>
    /\ faults = 0
    /\ last = Did("load")
    /\ steps = 0
    /\ pixels \in PixbufImages \cup SurfaceImages
    /\ grad = NULL

\* rsvg_cairo_surface_from_pixbuf (pixbuf)
SurfaceFromPixbuf ==
    /\ pixels.format = "pixbuf" /\ last.op = "load"
    /\ pixels' = rsvg_cairo_surface_from_pixbuf(pixels)
    /\ last' = [op |-> "surface_from_pixbuf", src |-> pixels.data]
    /\ steps' = steps + 1
    /\ UNCHANGED <<proc, ctx, cairo, frames, faults, grad>>

\* rsvg_cairo_surface_to_pixbuf (surface); origin is the pixbuf the surface
\* was made of, if it was made of one
SurfaceToPixbuf ==
    /\ pixels.format = "ARGB32" /\ last.op \in {"load", "surface_from_pixbuf"}
    /\ pixels' = rsvg_cairo_surface_to_pixbuf(pixels)
    /\ last' = [op |-> "surface_to_pixbuf", src |-> pixels.data,
                origin |-> IF last.op = "surface_from_pixbuf" THEN last.src ELSE <<>>,
                divisors |-> [x \in DOMAIN pixels.data |->
                                 convert_alpha(pixels.data)[x].divisors]]
    /\ steps' = steps + 1
    /\ UNCHANGED <<proc, ctx, cairo, frames, faults, grad>>

\* rsvg_cairo_generate_mask turns the mask surface it has rendered into
\* the alpha of the mask
MaskLuminance ==
    /\ pixels.format = "ARGB32" /\ last.op = "load"
    /\ \E opacity \in MaskOpacities :
          /\ pixels' = Image("ARGB32", mask_luminance(pixels.data, opacity))
          /\ last' = [op |-> "mask_luminance", src |-> pixels.data, opacity |-> opacity]
    /\ steps' = steps + 1
    /\ UNCHANGED <<proc, ctx, cairo, frames, faults, grad>>

PixelNext ==
    \/ SurfaceFromPixbuf
    \/ SurfaceToPixbuf
    \/ MaskLuminance

PixelSpec == PixelInit /\ [][PixelNext]_vars

(***************************************************************************)
(* Gradient elements (rsvg-paint-server.c).  A gradient node is its type,  *)
(* its implementation record and the attribute parse errors recorded on    *)
(* the node; a property bag maps attribute names to their text, NULL for   *)
(* an attribute that is not given.                                         *)
(***************************************************************************)

CAIRO_EXTEND_PAD == "pad"
CAIRO_EXTEND_REFLECT == "reflect"
CAIRO_EXTEND_REPEAT == "repeat"

RSVG_NODE_TYPE_LINEAR_GRADIENT == "linearGradient"
RSVG_NODE_TYPE_RADIAL_GRADIENT == "radialGradient"

rsvg_property_bag_lookup(atts, key) ==
    IF key \in DOMAIN atts THEN atts[key] ELSE NULL

\* rsvg_length_parse: a length in tenths, and whether it is a percentage
rsvg_length_parse(value) ==
    CASE value = "0" -> [length |-> 0, percent |-> FALSE]
      [] value = "1" -> [length |-> 10, percent |-> FALSE]
      [] value = "0.5" -> [length |-> 5, percent |-> FALSE]
      [] value = "25%" -> [length |-> 250, percent |-> TRUE]
      [] value = "7" -> [length |-> 70, percent |-> FALSE]
      [] OTHER -> [length |-> 0, percent |-> FALSE]

\* rsvg_parse_transform: [ok, affine]; kept is the matrix the caller holds,
\* which a text that is not a transformation leaves alone or resets
rsvg_parse_transform(kept, value, resets) ==
    CASE value = "translate(1,2)" -> [ok |-> TRUE, affine |-> Matrix(1, 1, 1, 2)]
      [] value = "scale(-1,1)" -> [ok |-> TRUE, affine |-> Matrix(-1, 1, 0, 0)]
      [] OTHER -> [ok |-> FALSE,
                   affine |-> IF resets THEN cairo_matrix_init_identity ELSE kept]

rsvg_node_set_attribute_parse_error(node, attr_name, description) ==
    [node EXCEPT !.attribute_errors =
                     @ \cup {[attr |-> attr_name, error |-> description]}]

GradientNode(type, impl) == [type |-> type, impl |-> impl, attribute_errors |-> {}]

rsvg_new_linear_gradient ==
    GradientNode(RSVG_NODE_TYPE_LINEAR_GRADIENT,
                 [affine |-> cairo_matrix_init_identity,
                  x1 |-> rsvg_length_parse("0"),
                  y1 |-> rsvg_length_parse("0"),
                  y2 |-> rsvg_length_parse("0"),
                  x2 |-> rsvg_length_parse("1"),
                  fallback |-> NULL,
                  obj_bbox |-> TRUE,
                  spread |-> CAIRO_EXTEND_PAD,
                  hasx1 |-> FALSE, hasy1 |-> FALSE, hasx2 |-> FALSE, hasy2 |-> FALSE,
                  hasbbox |-> FALSE, hasspread |-> FALSE, hastransform |-> FALSE])

rsvg_new_radial_gradient ==
    GradientNode(RSVG_NODE_TYPE_RADIAL_GRADIENT,
                 [affine |-> cairo_matrix_init_identity,
                  obj_bbox |-> TRUE,
                  spread |-> CAIRO_EXTEND_PAD,
                  fallback |-> NULL,
                  cx |-> rsvg_length_parse("0.5"),
                  cy |-> rsvg_length_parse("0.5"),
                  r |-> rsvg_length_parse("0.5"),
                  fx |-> rsvg_length_parse("0.5"),
                  fy |-> rsvg_length_parse("0.5"),
                  hascx |-> FALSE, hascy |-> FALSE, hasfx |-> FALSE, hasfy |-> FALSE,
                  hasr |-> FALSE, hasbbox |-> FALSE, hasspread |-> FALSE,
                  hastransform |-> FALSE])

\* if ((value = rsvg_property_bag_lookup (atts, key)))
\*     { grad->field = rsvg_length_parse (value); grad->has = TRUE; }
set_atts_length(node, atts, key, field, has) ==
    IF rsvg_property_bag_lookup(atts, key) # NULL
    THEN [node EXCEPT !.impl[field] =
                          rsvg_length_parse(rsvg_property_bag_lookup(atts, key)),
                      !.impl[has] = TRUE]
    ELSE node

\* cx and cy of a radial gradient: the focus follows the centre until it is
\* set itself
set_atts_centre(node, atts, key, field, has, focus, hasfocus) ==
    IF rsvg_property_bag_lookup(atts, key) # NULL
    THEN [node EXCEPT !.impl[field] =
                          rsvg_length_parse(rsvg_property_bag_lookup(atts, key)),
                      !.impl[has] = TRUE,
                      !.impl[focus] =
                          IF node.impl[hasfocus] THEN @
                          ELSE rsvg_length_parse(rsvg_property_bag_lookup(atts, key))]
    ELSE node

\* the attribute spreadMethod
set_atts_spread(node, atts) ==
    IF rsvg_property_bag_lookup(atts, "spreadMethod") # NULL
    THEN [node EXCEPT !.impl.spread =
                          CASE rsvg_property_bag_lookup(atts, "spreadMethod") = "pad"
                                  -> CAIRO_EXTEND_PAD
                            [] rsvg_property_bag_lookup(atts, "spreadMethod") = "reflect"
                                  -> CAIRO_EXTEND_REFLECT
                            [] rsvg_property_bag_lookup(atts, "spreadMethod") = "repeat"
                                  -> CAIRO_EXTEND_REPEAT
                            [] OTHER -> @,
                      !.impl.hasspread = TRUE]
    ELSE node

\* the attribute xlink:href
set_atts_fallback(node, atts) ==
    [node EXCEPT !.impl.fallback = rsvg_property_bag_lookup(atts, "xlink:href")]

\* the attribute gradientTransform; parsed is the outcome of
\* rsvg_parse_transform (&grad->affine, value)
set_atts_transform(node, atts, resets) ==
    IF rsvg_property_bag_lookup(atts, "gradientTransform") = NULL THEN node
    ELSE LET parsed ==
                 rsvg_parse_transform(node.impl.affine,
                                      rsvg_property_bag_lookup(atts, "gradientTransform"),
                                      resets)
         IN IF parsed.ok
            THEN [node EXCEPT !.impl.affine = parsed.affine,
                              !.impl.hastransform = TRUE]
            ELSE rsvg_node_set_attribute_parse_error(
                     [node EXCEPT !.impl.affine = parsed.affine],
                     "gradientTransform", "Invalid transformation")

\* the attribute gradientUnits
set_atts_units(node, atts) ==
    IF rsvg_property_bag_lookup(atts, "gradientUnits") # NULL
    THEN [node EXCEPT !.impl.obj_bbox =
                          CASE rsvg_property_bag_lookup(atts, "gradientUnits")
                                  = userSpaceOnUse -> FALSE
                            [] rsvg_property_bag_lookup(atts, "gradientUnits")
                                  = objectBoundingBox -> TRUE
                            [] OTHER -> @,
                      !.impl.hasbbox = TRUE]
    ELSE node

\* resets: what rsvg_parse_transform does to the matrix when it fails
rsvg_linear_gradient_set_atts(node, atts, resets) ==
    set_atts_units(
        set_atts_transform(
            set_atts_fallback(
                set_atts_spread(
                    set_atts_length(
                        set_atts_length(
                            set_atts_length(
                                set_atts_length(node, atts, "x1", "x1", "hasx1"),
                                atts, "y1", "y1", "hasy1"),
                            atts, "x2", "x2", "hasx2"),
                        atts, "y2", "y2", "hasy2"),
                    atts),
                atts),
            atts, resets),
        atts)

rsvg_radial_gradient_set_atts(node, atts, resets) ==
    set_atts_units(
        set_atts_spread(
            set_atts_transform(
                set_atts_fallback(
                    set_atts_length(
                        set_atts_length(
                            set_atts_length(
                                set_atts_centre(
                                    set_atts_centre(node, atts, "cx", "cx", "hascx",
                                                    "fx", "hasfx"),
                                    atts, "cy", "cy", "hascy", "fy", "hasfy"),
                                atts, "r", "r", "hasr"),
                            atts, "fx", "fx", "hasfx"),
                        atts, "fy", "fy", "hasfy"),
                    atts),
                atts, resets),
            atts),
        atts)

\* the attributes of a gradient element and the texts a document gives them
LengthTexts == {NULL, "7"}
SpreadTexts == {NULL, "pad", "reflect", "repeat", "mirror"}
UnitsTexts == {NULL, userSpaceOnUse, objectBoundingBox, "userSpace"}
TransformTexts == {NULL, "translate(1,2)", "scale(-1,1)", "rotate("}
HrefTexts == {NULL, "#base"}

LinearBags ==
    {[x1 |-> x1, y1 |-> y1, x2 |-> x2, y2 |-> "25%", spreadMethod |-> sp,
      gradientTransform |-> tr, gradientUnits |-> un] :
        x1 \in LengthTexts, y1 \in LengthTexts, x2 \in LengthTexts,
        sp \in SpreadTexts, tr \in TransformTexts, un \in UnitsTexts}

RadialBags ==
    {[cx |-> cx, r |-> r, fx |-> fx, spreadMethod |-> sp,
      gradientTransform |-> tr, gradientUnits |-> un] :
        cx \in LengthTexts, r \in LengthTexts, fx \in LengthTexts,
        sp \in SpreadTexts, tr \in TransformTexts, un \in UnitsTexts}

\* a property bag with the attribute xlink:href
WithHref(atts, href) ==
    [key \in DOMAIN atts \cup {"xlink:href"} |->
        IF key = "xlink:href" THEN href ELSE atts[key]]

GradientInit ==
    /\ proc = "parsing"
    /\ ctx = NoCtx
    /\ cairo = InitialCairo
    /\ frames = <<>>
    /\ faults = 0
    /\ last = Did("start")
    /\ steps = 0
    /\ pixels = <<>>
    /\ grad = NULL

\* rsvg_new_linear_gradient, rsvg_new_radial_gradient: the element starts
NewGradient ==
    /\ last.op = "start"
    /\ grad' \in {rsvg_new_linear_gradient, rsvg_new_radial_gradient}
    /\ last' = Did("new_gradient")
    /\ steps' = steps + 1
    /\ UNCHANGED <<proc, ctx, cairo, frames, faults, pixels>>

\* the attributes atts have been set on the gradient, node being the outcome
GradientSet(node, atts) ==
    /\ grad' = node
    /\ last' = [op |-> "set_atts", atts |-> atts, pre |-> grad]
    /\ steps' = steps + 1
    /\ UNCHANGED <<proc, ctx, cairo, frames, faults, pixels>>

\* rsvg_linear_gradient_set_atts (node, impl, handle, atts)
LinearGradientSetAtts ==
    /\ last.op = "new_gradient"
    /\ grad.type = RSVG_NODE_TYPE_LINEAR_GRADIENT
    /\ \E bag \in LinearBags, href \in HrefTexts, resets \in BOOLEAN :
          GradientSet(rsvg_linear_gradient_set_atts(grad, WithHref(bag, href), resets),
                      WithHref(bag, href))

\* rsvg_radial_gradient_set_atts (node, impl, handle, atts)
RadialGradientSetAtts ==
    /\ last.op = "new_gradient"
    /\ grad.type = RSVG_NODE_TYPE_RADIAL_GRADIENT
    /\ \E bag \in RadialBags, href \in HrefTexts, resets \in BOOLEAN :
          GradientSet(rsvg_radial_gradient_set_atts(grad, WithHref(bag, href), resets),
                      WithHref(bag, href))

GradientNext ==
    \/ NewGradient
    \/ LinearGradientSetAtts
    \/ RadialGradientSetAtts

GradientSpec == GradientInit /\ [][GradientNext]_vars

(***************************************************************************)
(* Paint specifications (rsvg-paint-server.c).  A text is the sequence of  *)
(* its tokens: a url reference, one white space character, or a word; the  *)
(* paint server that is returned is a record, of type NULL when the        *)
(* function returns NULL.                                                  *)
(***************************************************************************)

RSVG_PAINT_SERVER_SOLID == "solid"
RSVG_PAINT_SERVER_IRI == "iri"

RSVG_CSS_COLOR_SPEC_INHERIT == "inherit"
RSVG_CSS_COLOR_SPEC_CURRENT_COLOR == "currentColor"
RSVG_CSS_COLOR_SPEC_ARGB == "argb"
RSVG_CSS_COLOR_PARSE_ERROR == "parse error"

\* the null pointer handed in for a text
NoText == <<NULL>>

\* rsvg_get_url_string (str, &rest): the reference of a text that starts
\* with a complete "url(...)", and the text after it; name is NULL otherwise
rsvg_get_url_string(str) ==
    CASE str # <<>> /\ Head(str) = "url(#g)" -> [name |-> "#g", rest |-> Tail(str)]
      [] str # <<>> /\ Head(str) = "url(doc.svg#h)" ->
             [name |-> "doc.svg#h", rest |-> Tail(str)]
      [] OTHER -> [name |-> NULL, rest |-> <<>>]

\* while (*rest && g_ascii_isspace (*rest)) rest++;
RECURSIVE skip_space(_)
skip_space(rest) ==
    IF rest # <<>> /\ Head(rest) \in {" ", "\t", "\n"} THEN skip_space(Tail(rest))
    ELSE rest

\* rsvg_css_parse_color (str, allow_inherit, allow_current_color): one
\* colour word and nothing else is a colour
rsvg_css_parse_color(str, allow_inherit, allow_current_color) ==
    CASE str = <<"red">> -> [kind |-> RSVG_CSS_COLOR_SPEC_ARGB, argb |-> Argb(255, 255, 0, 0)]
      [] str = <<"#00ff0080">> ->
             [kind |-> RSVG_CSS_COLOR_SPEC_ARGB, argb |-> Argb(128, 0, 255, 0)]
      [] str = <<"currentColor">> /\ allow_current_color ->
             [kind |-> RSVG_CSS_COLOR_SPEC_CURRENT_COLOR, argb |-> Argb(0, 0, 0, 0)]
      [] str = <<"inherit">> /\ allow_inherit ->
             [kind |-> RSVG_CSS_COLOR_SPEC_INHERIT, argb |-> Argb(0, 0, 0, 0)]
      [] OTHER -> [kind |-> RSVG_CSS_COLOR_PARSE_ERROR, argb |-> Argb(0, 0, 0, 0)]

RsvgSolidColor(currentcolor, argb) == [currentcolor |-> currentcolor, argb |-> argb]

\* faulty variant of parse_current_color_or_argb: without the strcmp with
\* "none", and with "none" taken for the transparent colour
parse_current_color_or_argb_takes_none(str) ==
    LET spec == rsvg_css_parse_color(str, FALSE, TRUE)
    IN CASE str = <<"none">> ->
                [ok |-> TRUE, dest |-> RsvgSolidColor(FALSE, Argb(0, 0, 0, 0))]
         [] spec.kind = RSVG_CSS_COLOR_SPEC_CURRENT_COLOR ->
                [ok |-> TRUE, dest |-> RsvgSolidColor(TRUE, Argb(0, 0, 0, 0))]
         [] spec.kind = RSVG_CSS_COLOR_SPEC_ARGB ->
                [ok |-> TRUE, dest |-> RsvgSolidColor(FALSE, spec.argb)]
         [] OTHER ->
                [ok |-> FALSE, dest |-> RsvgSolidColor(FALSE, Argb(0, 0, 0, 0))]

\* parse_current_color_or_argb (str, dest): [ok, dest]
parse_current_color_or_argb(str) ==
    IF str = <<"none">>
    THEN [ok |-> FALSE, dest |-> RsvgSolidColor(FALSE, Argb(0, 0, 0, 0))]
    ELSE LET spec == rsvg_css_parse_color(str, FALSE, TRUE)
         IN CASE spec.kind = RSVG_CSS_COLOR_SPEC_CURRENT_COLOR ->
                     [ok |-> TRUE, dest |-> RsvgSolidColor(TRUE, Argb(0, 0, 0, 0))]
              [] spec.kind = RSVG_CSS_COLOR_SPEC_ARGB ->
                     [ok |-> TRUE, dest |-> RsvgSolidColor(FALSE, spec.argb)]
              [] spec.kind = RSVG_CSS_COLOR_PARSE_ERROR ->
                     [ok |-> FALSE, dest |-> RsvgSolidColor(FALSE, Argb(0, 0, 0, 0))]
              \* default: g_assert_not_reached ()
              [] OTHER -> [ok |-> "abort", dest |-> RsvgSolidColor(FALSE, Argb(0, 0, 0, 0))]

\* a paint server: of type NULL when no paint server is returned, and then
\* of no colour and no reference
RsvgPaintServer(type, color, iri) ==
    [refcnt |-> IF type = NULL THEN 0 ELSE 1, type |-> type, color |-> color, iri |-> iri]

NoColor == RsvgSolidColor(FALSE, Argb(0, 0, 0, 0))
NoIri == [iri_str |-> NULL, has_alternate |-> FALSE, alternate |-> NoColor]

rsvg_paint_server_solid(argb) ==
    RsvgPaintServer(RSVG_PAINT_SERVER_SOLID, RsvgSolidColor(FALSE, argb), NoIri)

rsvg_paint_server_solid_current_color ==
    RsvgPaintServer(RSVG_PAINT_SERVER_SOLID, RsvgSolidColor(TRUE, Argb(0, 0, 0, 0)), NoIri)

rsvg_paint_server_iri(iri, has_alternate, alternate) ==
    RsvgPaintServer(RSVG_PAINT_SERVER_IRI, NoColor,
                    [iri_str |-> iri, has_alternate |-> has_alternate,
                     alternate |-> alternate])

\* rsvg_paint_server_parse (inherit, str): [server, inherit]; has_inherit is
\* whether the pointer inherit is not NULL, and inherit is what *inherit
\* holds on return, FALSE while nothing is written to it
rsvg_paint_server_parse(has_inherit, str) ==
    IF str = NoText \/ str = <<"none">>
    THEN [server |-> RsvgPaintServer(NULL, NoColor, NoIri), inherit |-> has_inherit]
    ELSE IF rsvg_get_url_string(str).name # NULL
    THEN LET parsed == parse_current_color_or_argb(
                           skip_space(rsvg_get_url_string(str).rest))
         IN [server |-> rsvg_paint_server_iri(rsvg_get_url_string(str).name,
                                              parsed.ok, parsed.dest),
             inherit |-> has_inherit]
    ELSE LET spec == rsvg_css_parse_color(str, TRUE, TRUE)
         IN CASE spec.kind = RSVG_CSS_COLOR_SPEC_INHERIT ->
                     [server |-> rsvg_paint_server_solid(Argb(0, 0, 0, 0)),
                      inherit |-> FALSE]
              [] spec.kind = RSVG_CSS_COLOR_SPEC_CURRENT_COLOR ->
                     [server |-> rsvg_paint_server_solid_current_color,
                      inherit |-> has_inherit]
              [] spec.kind = RSVG_CSS_COLOR_SPEC_ARGB ->
                     [server |-> rsvg_paint_server_solid(spec.argb),
                      inherit |-> has_inherit]
              [] OTHER ->
                     [server |-> RsvgPaintServer(NULL, NoColor, NoIri),
                      inherit |-> has_inherit]

\* the paint specifications a document gives: a reference or none, complete
\* or not, white space or none, and the text after it
UrlTexts == {<<>>, <<"url(#g)">>, <<"url(doc.svg#h)">>, <<"url(#g">>}
SpaceTexts == {<<>>, <<" ">>, <<"\t", " ">>}
ColorTexts ==
    {<<>>, <<"none">>, <<"red">>, <<"#00ff0080">>, <<"currentColor">>, <<"inherit">>,
     <<"bogus">>, <<"none", " ">>, <<"red", "bogus">>}
PaintTexts ==
    {NoText} \cup {u \o sp \o col : u \in UrlTexts, sp \in SpaceTexts, col \in ColorTexts}

ParseInit ==
    /\ proc = "parsing"
    /\ ctx = NoCtx
    /\ cairo = InitialCairo
    /\ frames = <<>>
    /\ faults = 0
    /\ last = Did("start")
    /\ steps = 0
    /\ pixels = <<>>
    /\ grad = NULL

\* rsvg_paint_server_parse (&inherit, str) or rsvg_paint_server_parse (NULL,
\* str), of the value of a fill or stroke property
PaintServerParse ==
    /\ \E str \in PaintTexts, has_inherit \in BOOLEAN :
          last' = [op |-> "paint_server_parse", str |-> str,
                   has_inherit |-> has_inherit,
                   result |-> rsvg_paint_server_parse(has_inherit, str)]
    /\ UNCHANGED <<proc, ctx, cairo, frames, faults, steps, pixels, grad>>

ParseNext ==
    \/ PaintServerParse

ParseSpec == ParseInit /\ [][ParseNext]_vars

(***************************************************************************)
(* What a layer leaves on its parent's surface.  A surface is kept as its  *)
(* extent and the device points painted on it; one element that meets the  *)
(* conditions of the fast path paints its shapes, on the caller's surface  *)
(* or inside the layer of an enclosing element, and the same shapes are    *)
(* run through the layer that rsvg_cairo_push_render_stack creates when    *)
(* it does not return early.                                               *)
(***************************************************************************)

\* the surface of a layer: ctx->width by ctx->height, at the origin
\* the matrix content is painted with: the affine of the state, moved back
\* by the offset of the canvas on the initial cairo_t
set_rsvg_affine(c) ==
    LET affine == rsvg_state_get_affine(rsvg_drawing_ctx_get_current_state(c))
    IN IF c.cr = c.initial_cr
       THEN [affine EXCEPT !.x0 = @ + c.offset_x, !.y0 = @ + c.offset_y]
       ELSE affine

\* the points land on the surface s, as far as its extent reaches
cairo_fill(pix, s, points) ==
    [pix EXCEPT !.painted[s] =
        @ \cup {p \in points :
                   /\ p.x \in pix.extent[s].x .. (pix.extent[s].x + pix.extent[s].width)
                   /\ p.y \in pix.extent[s].y .. (pix.extent[s].y + pix.extent[s].height)}]

\* cairo_set_source_surface (cr, source, x, y); cairo_paint (cr), the
\* matrix of cr being the identity and target the surface of cr
cairo_paint(pix, target, source, x, y) ==
    cairo_fill(pix, target,
               {[x |-> p.x + x, y |-> p.y + y] : p \in pix.painted[source]})

\* a picture pic is [ctx, cairo, pixels]
Picture(c, b, pix) == [ctx |-> c, cairo |-> b, pixels |-> pix]

\* a shape is drawn: its extents join bbox and ink_bbox, its points land on
\* the surface of cr
render_shape(pic, rect) ==
    Picture(rsvg_drawing_ctx_insert_ink_bbox(
                rsvg_drawing_ctx_insert_bbox(
                    pic.ctx, BboxOf(rect, rsvg_state_get_affine(pic.ctx.state))),
                BboxOf(rect, rsvg_state_get_affine(pic.ctx.state))),
            pic.cairo,
            cairo_fill(pic.pixels, cairo_get_target(pic.cairo, pic.ctx.cr),
                       {[x |-> set_rsvg_affine(pic.ctx).xx * i + set_rsvg_affine(pic.ctx).x0,
                         y |-> set_rsvg_affine(pic.ctx).yy * j + set_rsvg_affine(pic.ctx).y0] :
                           i \in rect.x .. (rect.x + rect.width),
                           j \in rect.y .. (rect.y + rect.height)}))

RECURSIVE render_shapes(_, _)
render_shapes(pic, shapes) ==
    IF shapes = <<>> THEN pic
    ELSE render_shapes(render_shape(pic, Head(shapes)), Tail(shapes))

\* the picture after a push that left the machine m behind: a layer that
\* was created is of the size of the canvas, ctx->width by ctx->height, and
\* clear
Pushed(pic, m) ==
    Picture(m.ctx, m.cairo,
            IF Events(m.ev, "create_layer") = {} THEN pic.pixels
            ELSE LET s == m.ev[Min(Events(m.ev, "create_layer"))].surface
                 IN [extent |-> [x \in DOMAIN pic.pixels.extent \cup {s} |->
                                    IF x = s THEN Rect(0, 0, m.ctx.width, m.ctx.height)
                                    ELSE pic.pixels.extent[x]],
                     painted |-> [x \in DOMAIN pic.pixels.painted \cup {s} |->
                                    IF x = s THEN {} ELSE pic.pixels.painted[x]]])

\* the picture after a pop that left the machine m behind: the source
\* surface is painted where cairo_set_source_surface put it
Popped(pic, m) ==
    Picture(m.ctx, m.cairo,
            IF Events(m.ev, "set_source_surface") = {} \/ Events(m.ev, "paint") = {}
            THEN pic.pixels
            ELSE LET e == m.ev[Min(Events(m.ev, "set_source_surface"))]
                 IN cairo_paint(pic.pixels, cairo_get_target(m.cairo, e.cr),
                                e.surface, e.x, e.y))

\* rsvg_cairo_push_render_stack and rsvg_cairo_pop_render_stack of an
\* element of style st, on the picture pic
picture_push(pic, st) ==
    Pushed(pic, push_render_stack(Machine(pic.ctx, pic.cairo, <<>>), st))

picture_pop(pic, st) ==
    Popped(pic, pop_render_stack(Machine(pic.ctx, pic.cairo, <<>>), st))

\* the same two functions past their early return: the layer is created
\* and composited whatever the style
picture_push_layer(pic, st) ==
    Pushed(pic, push_render_stack_layer(Machine(pic.ctx, pic.cairo, <<>>), st,
                                        pic.ctx, TRUE).m)

picture_pop_layer(pic, st) ==
    Popped(pic, pop_render_stack_finish(
                    pop_render_stack_filter(Machine(pic.ctx, pic.cairo, <<>>), st,
                                            pic.ctx.cr, NULL, pic.ctx),
                    st))

\* what an element leaves to its parent, target being the parent's cairo_t
Outcome(pic, target) ==
    [bbox |-> pic.ctx.bbox, ink_bbox |-> pic.ctx.ink_bbox,
     cr |-> pic.ctx.cr, cr_stack |-> pic.ctx.cr_stack,
     painted |-> pic.pixels.painted[cairo_get_target(pic.cairo, target)]]

\* the caller's surface: just the canvas at its offset, or larger
CallerExtents == {Rect(1, 2, 2, 1), Rect(0, 0, 4, 4)}

\* the shapes of the element, in its coordinates: inside the canvas, across
\* its right edge, above its top edge
Shapes == {Rect(0, 0, 1, 1), Rect(1, 0, 1, 1), Rect(0, -1, 1, 1)}

PaintInit ==
    /\ proc = "live"
    /\ ctx = rsvg_drawing_ctx_new(InitialCr, DocData, DocAffine)
    /\ cairo = InitialCairo
    /\ frames = <<>>
    /\ faults = 0
    /\ last = Did("init")
    /\ steps = 0
    /\ \E ext \in CallerExtents :
          pixels = [extent |-> (1 :> ext), painted |-> (1 :> {})]
    /\ grad = NULL

\* the picture pic is what the step leaves behind
PaintStep(pic, fs, did) ==
    /\ ctx' = pic.ctx
    /\ cairo' = pic.cairo
    /\ pixels' = pic.pixels
    /\ frames' = fs
    /\ last' = did
    /\ UNCHANGED <<proc, faults, steps, grad>>

\* an enclosing element with an opacity is entered: its layer is pushed
PaintPushEnclosing ==
    /\ frames = <<>> /\ last.op = "init"
    /\ PaintStep(picture_push(Picture(ctx, cairo, pixels), EnclosingStyle),
                 <<[k |-> "layer", style |-> EnclosingStyle]>>,
                 Did("push_enclosing"))

\* the element is entered: state push, its transform, and its push
PaintEnter ==
    /\ last.op \in {"init", "push_enclosing"}
    /\ PaintStep(picture_push(
                     Picture(rsvg_state_reinherit_top(rsvg_drawing_ctx_state_push(ctx)),
                             cairo, pixels),
                     DefaultStyle),
                 Append(frames,
                        [k |-> "element", style |-> DefaultStyle, shapes |-> <<>>,
                         pre |-> Picture(rsvg_state_reinherit_top(
                                             rsvg_drawing_ctx_state_push(ctx)),
                                         cairo, pixels)]),
                 Did("enter"))

\* the element paints one of its shapes
PaintShape ==
    /\ frames # <<>> /\ Top.k = "element"
    /\ \E rect \in Shapes \ Range(Top.shapes) :
          PaintStep(render_shape(Picture(ctx, cairo, pixels), rect),
                    WithTop([Top EXCEPT !.shapes = Append(@, rect)]),
                    [op |-> "shape", rect |-> rect])

\* the element is left: its pop, and the pop of the state; forced is what
\* the same shapes leave when the layer is created
PaintLeave ==
    /\ frames # <<>> /\ Top.k = "element"
    /\ PaintStep([picture_pop(Picture(ctx, cairo, pixels), Top.style) EXCEPT
                      !.ctx = rsvg_drawing_ctx_state_pop(@)],
                 Rest,
                 [op |-> "element", style |-> Top.style, shapes |-> Top.shapes,
                  pre |-> Top.pre,
                  fast |-> Outcome(picture_pop(Picture(ctx, cairo, pixels), Top.style), Top.pre.ctx.cr),
                  forced |-> Outcome(
                      picture_pop_layer(
                          render_shapes(picture_push_layer(Top.pre, Top.style),
                                        Top.shapes),
                          Top.style),
                      Top.pre.ctx.cr)])

PaintNext ==
    \/ PaintPushEnclosing
    \/ PaintEnter
    \/ PaintShape
    \/ PaintLeave

PaintSpec == PaintInit /\ [][PaintNext]_vars

----------------------------------------------------------------------------
(* Properties. *)

NoDuplicates(list) == \A i, j \in DOMAIN list : list[i] = list[j] => i = j

\* the five stacks of the context c are empty
StacksEmpty(c) ==
    /\ c.cr_stack = <<>>
    /\ c.surfaces_stack = <<>>
    /\ c.bb_stack = <<>>
    /\ c.ink_bb_stack = <<>>
    /\ c.acquired_nodes = <<>>

\* C1: when a tree walk whose pops see the style of their pushes has ended,
\* cr_stack, surfaces_stack, bb_stack, ink_bb_stack and acquired_nodes are
\* empty, and rsvg_drawing_ctx_free passes every one of its checks.
C1_StacksEmptyAfterWalk ==
    /\ proc = "rendered" => StacksEmpty(ctx)
    /\ last.op = "free" =>
          /\ proc = "freed"
          /\ last.failed = NULL
          /\ StacksEmpty(last.pre)
          /\ ctx.glog = {}

\* a walk that pushed a layer with a surface and generated a mask has been
\* freed
C1_Witness ==
    /\ proc = "freed" /\ last.op = "free"
    /\ Events(last.ev, "create_layer") # {}
    /\ Events(last.ev, "mask_surface") # {}

\* C2: rsvg_drawing_ctx_acquire_node returns NULL when the url is NULL,
\* names no node, or names a node that is on acquired_nodes, and leaves
\* acquired_nodes as it was in each of the three cases.
C2_AcquireRefuses ==
    (last.op = "acquire" /\ last.type = NULL) =>
        ((\/ last.url = NULL
          \/ rsvg_defs_lookup(last.url) = NULL
          \/ rsvg_defs_lookup(last.url) \in Range(last.pre.acquired_nodes))
         => /\ last.node = NULL
            /\ ctx.acquired_nodes = last.pre.acquired_nodes)

\* a node that is held, and not as the most recent one, is asked for again
\* under another url
C2_Witness ==
    /\ last.op = "acquire" /\ last.type = NULL
    /\ last.url = "doc.svg#M1"
    /\ Len(last.pre.acquired_nodes) = 2
    /\ last.pre.acquired_nodes[2] = "M1"
    /\ last.node = NULL

\* a release that does not match the most recent acquisition
BadRelease ==
    /\ last.op = "release"
    /\ last.node # NULL
    /\ \/ last.pre.acquired_nodes = <<>>
       \/ Head(last.pre.acquired_nodes) # last.node

MaskNotAcquired ==
    /\ last.op = "pop_layer"
    /\ ~ last.clipping
    /\ last.style.mask # NULL
    /\ rsvg_drawing_ctx_acquire_node_of_type(ctx, last.style.mask,
                                             RSVG_NODE_TYPE_MASK).node = NULL

\* C5: when the mask of the element cannot be acquired, the pop composites
\* the layer as if no mask were set: with alpha opacity / 255 when the
\* opacity is not 255, fully otherwise.
C5_UnresolvedMaskStillComposites ==
    MaskNotAcquired =>
        IF last.style.opacity # OPAQUE
        THEN \E i \in Events(last.ev, "paint_with_alpha") :
                last.ev[i].opacity = last.style.opacity
        ELSE Events(last.ev, "paint") # {}

\* the clip and mask evaluations that are under way, innermost last
ReferenceFrames == SelectSeq(frames, LAMBDA fr : fr.k \in {"clip", "mask"})

\* the steps a render pass of the tree takes at most: 30 for each element,
\* those of the clip paths and masks it refers to included
RenderSteps == 30 * Cardinality(Tree)

\* C6: acquired_nodes never holds a node twice, the clip and mask
\* evaluations under way are of different nodes, all of them held, so that
\* their nesting depth is at most the number of nodes that can be
\* referenced; and the render pass ends within RenderSteps steps.
C6_ReferencesTerminate ==
    /\ NoDuplicates(ctx.acquired_nodes)
    /\ NoDuplicates([i \in DOMAIN ReferenceFrames |-> ReferenceFrames[i].node])
    /\ \A i \in DOMAIN ReferenceFrames :
          ReferenceFrames[i].node \in Range(ctx.acquired_nodes)
    /\ Len(ReferenceFrames) <= Cardinality(Nodes)
    /\ steps <= RenderSteps

\* the mask M1 is generated, and inside it the mask M2 of its child, whose
\* own child refers to M1 again
C6_Witness ==
    /\ Len(ReferenceFrames) = 2
    /\ ReferenceFrames[1].node = "M1"
    /\ ReferenceFrames[2].node = "M2"
    /\ last.op = "pop_layer"
    /\ last.style.mask = "doc.svg#M1"

\* C7: rsvg_drawing_ctx_acquire_node_of_type returns the node when the url
\* names a node that is not held and has the type asked for, and then the
\* node is the new head of acquired_nodes; otherwise it returns NULL and
\* acquired_nodes is as it was.
C7_TypedAcquire ==
    (last.op = "acquire" /\ last.type # NULL) =>
        IF /\ last.url # NULL
           /\ rsvg_defs_lookup(last.url) # NULL
           /\ rsvg_defs_lookup(last.url) \notin Range(last.pre.acquired_nodes)
           /\ rsvg_node_get_type(rsvg_defs_lookup(last.url)) = last.type
        THEN /\ last.node = rsvg_defs_lookup(last.url)
             /\ ctx.acquired_nodes = <<last.node>> \o last.pre.acquired_nodes
        ELSE /\ last.node = NULL
             /\ ctx.acquired_nodes = last.pre.acquired_nodes

\* a filter is asked for as a mask while another node is held
C7_Witness ==
    /\ last.op = "acquire"
    /\ last.type = RSVG_NODE_TYPE_MASK
    /\ last.url = "#F"
    /\ last.pre.acquired_nodes = <<"M1">>
    /\ last.node = NULL

\* C8: an acquire that succeeds puts the node on top of acquired_nodes; the
\* release of that node restores acquired_nodes to what it was before the
\* acquire, and the url can then be acquired again; a second acquire of the
\* url without the release returns NULL.
C8_AcquireReleaseRoundTrip ==
    [][/\ (last'.op = "acquire" /\ last'.node # NULL) =>
              ctx'.acquired_nodes = <<last'.node>> \o ctx.acquired_nodes
       /\ (/\ last.op = "acquire" /\ last.node # NULL
           /\ last'.op = "release" /\ last'.node = last.node) =>
              /\ ctx'.acquired_nodes = last.pre.acquired_nodes
              /\ rsvg_drawing_ctx_acquire_node(ctx', last.url).node = last.node
       /\ (/\ last.op = "acquire" /\ last.node # NULL
           /\ last'.op = "acquire" /\ last'.url = last.url) =>
              last'.node = NULL
      ]_vars

\* the most recent of two acquisitions has been released
C8_Witness ==
    /\ last.op = "release"
    /\ last.node # NULL
    /\ Len(last.pre.acquired_nodes) = 2
    /\ Head(last.pre.acquired_nodes) = last.node
    /\ ctx.acquired_nodes = Tail(last.pre.acquired_nodes)

\* C9: rsvg_drawing_ctx_new returns NULL exactly when the width or the
\* height of the document is 0; the context it returns draws on the cairo_t
\* it was given and has empty cr_stack, surfaces_stack, vb_stack,
\* drawsub_stack and acquired_nodes.
C9_NewContext ==
    last.op = "new" =>
        /\ ctx = NoCtx <=> (last.width = 0 \/ last.height = 0)
        /\ ctx # NoCtx =>
              /\ ctx.initial_cr = last.cr
              /\ ctx.cr = ctx.initial_cr
              /\ ctx.cr_stack = <<>>
              /\ ctx.surfaces_stack = <<>>
              /\ ctx.vb_stack = <<>>
              /\ ctx.drawsub_stack = <<>>
              /\ ctx.acquired_nodes = <<>>

\* a document of width 0 and another height is given no context
C9_Witness ==
    /\ last.op = "new"
    /\ last.width = 0 /\ last.height # 0
    /\ ctx = NoCtx

\* the clip path of the style st is applied late when the context is c
LateClip(c, st) ==
    /\ st.clip_path # NULL
    /\ rsvg_defs_lookup(st.clip_path) # NULL
    /\ rsvg_defs_lookup(st.clip_path) \notin Range(c.acquired_nodes)
    /\ rsvg_node_get_type(rsvg_defs_lookup(st.clip_path)) = RSVG_NODE_TYPE_CLIP_PATH
    /\ rsvg_node_clip_path_get_units(rsvg_defs_lookup(st.clip_path)) = objectBoundingBox

\* the last call was a push or a pop of an element that needs no layer
FastLayerCall ==
    /\ last.op \in {"push_layer", "pop_layer"}
    /\ ~ last.clipping
    /\ last.style.opacity = 255
    /\ last.style.filter = NULL
    /\ last.style.mask = NULL
    /\ ~ LateClip(last.pre.ctx, last.style)
    /\ last.style.comp_op = CAIRO_OPERATOR_OVER
    /\ last.style.enable_background = RSVG_ENABLE_BACKGROUND_ACCUMULATE

\* C10: the push of an element that needs no layer creates no surface and
\* leaves cr, cr_stack, surfaces_stack, bb_stack, ink_bb_stack, bbox and
\* ink_bbox as they were, and so does the pop that matches it.
C10_FastPathLeavesContext ==
    FastLayerCall =>
        /\ Events(last.ev, "create_layer") = {}
        /\ ctx.cr = last.pre.ctx.cr
        /\ ctx.cr_stack = last.pre.ctx.cr_stack
        /\ ctx.surfaces_stack = last.pre.ctx.surfaces_stack
        /\ ctx.bb_stack = last.pre.ctx.bb_stack
        /\ ctx.ink_bb_stack = last.pre.ctx.ink_bb_stack
        /\ ctx.bbox = last.pre.ctx.bbox
        /\ ctx.ink_bbox = last.pre.ctx.ink_bbox

\* an element that needs no layer, has a clip path in user space and has
\* drawn itself is popped
C10_Witness ==
    /\ FastLayerCall
    /\ last.op = "pop_layer"
    /\ last.style.clip_path = "#KU"
    /\ Events(last.ev, "clip") # {}
    /\ ~ last.pre.ctx.bbox.virgin

\* the last call was the pop of a layer, the push that matches it was made
\* in the context and backend last.pre_push
LayerPopped == last.op = "pop_layer"

\* the layers the element of the last call has created, and the cairo_t's
\* it has destroyed
LayersCreated == {last.ev[i].cr : i \in Events(last.ev, "create_layer")}
LayersDestroyed == {last.ev[i].cr : i \in Events(last.ev, "destroy")}

\* C11: after a push and the pop that matches it, cr and cr_stack are what
\* they were before the push; the cairo_t the push created is destroyed once,
\* by that pop, and no object of the pair is left in the backend; a pair on
\* the fast path creates nothing and destroys nothing.
C11_PopRestoresTarget ==
    LayerPopped =>
        /\ ctx.cr = last.pre_push.ctx.cr
        /\ ctx.cr_stack = last.pre_push.ctx.cr_stack
        /\ cairo = last.pre_push.cairo
        /\ Cardinality(Events(last.ev, "create_layer")) =
              Cardinality(Events(last.ev, "destroy"))
        /\ LayersCreated = LayersDestroyed
        /\ \A cr \in LayersCreated : cr \notin DOMAIN cairo.target
        /\ IF last.fast \/ last.clipping
           THEN Events(last.ev, "create_layer") = {}
           ELSE /\ Cardinality(Events(last.ev, "create_layer")) = 1
                /\ LayersCreated = {last.pre.ctx.cr}

\* the layer of an element inside the layer of another element is popped,
\* after a filter has rendered it
C11_Witness ==
    /\ LayerPopped
    /\ ~ last.fast /\ ~ last.clipping
    /\ last.pre_push.ctx.cr_stack # <<>>
    /\ Events(last.ev, "filter_render") # {}
    /\ LayersCreated \cap DOMAIN last.pre.cairo.target # {}

\* the last call was a push whose surface allocation failed
PushAllocationFailed ==
    /\ last.op = "push_layer"
    /\ \E i \in Events(last.ev, "create_layer") : last.ev[i].surface = NilSurface

\* C12: when the surface allocation of a push fails, the push returns
\* without an entry on cr_stack, bb_stack, ink_bb_stack or surfaces_stack
\* for the layer, and cr is still the cairo_t of the enclosing layer.
C12_FailedAllocationPushesNothing ==
    PushAllocationFailed =>
        /\ ctx.cr = last.pre.ctx.cr
        /\ ctx.cr_stack = last.pre.ctx.cr_stack
        /\ ctx.bb_stack = last.pre.ctx.bb_stack
        /\ ctx.ink_bb_stack = last.pre.ctx.ink_bb_stack
        /\ ctx.surfaces_stack = last.pre.ctx.surfaces_stack

\* the last call was the pop of the layer of an element that has a filter
FilteredLayerPopped ==
    /\ LayerPopped
    /\ ~ last.clipping
    /\ last.style.filter # NULL

\* the filter of the element of the last call is a filter of the document
FilterAcquired ==
    rsvg_drawing_ctx_acquire_node_of_type(last.pre.ctx, last.style.filter,
                                          RSVG_NODE_TYPE_FILTER).node # NULL

\* the calls of rsvg_filter_render the pop has made, with the surface the
\* push of the layer created as their input
FilterRendersOfLayer ==
    {i \in Events(last.ev, "filter_render") :
        /\ last.ev[i].input = Head(last.pre.ctx.surfaces_stack)
        /\ \E j \in Events(last.ev, "create_layer") :
              last.ev[j].filtered /\ last.ev[j].surface = last.ev[i].input}

PlacedByTarget(c, e) ==
    IF e.cr = c.initial_cr
    THEN e.x = c.offset_x /\ e.y = c.offset_y
    ELSE e.x = 0 /\ e.y = 0

\* C14: the pop of a layer composites the surface of the layer onto the
\* cairo_t it takes from cr_stack, at (offset_x, offset_y) when that is the
\* initial cairo_t and at (0, 0) when it is another; the mask surface is
\* placed by the same rule on the cairo_t it is composited onto.
C14_CompositeOffset ==
    (LayerPopped /\ ~ last.clipping /\ ~ last.fast) =>
        /\ Cardinality(Events(last.ev, "set_source_surface")) = 1
        /\ \A i \in Events(last.ev, "set_source_surface") \cup
                    Events(last.ev, "mask_surface") :
              /\ last.ev[i].cr = Head(last.pre.ctx.cr_stack)
              /\ last.ev[i].cr = ctx.cr
              /\ PlacedByTarget(ctx, last.ev[i])

\* a masked layer inside another layer is popped on a canvas whose offset is
\* not zero: layer and mask surface are placed at the origin
C14_Witness ==
    /\ LayerPopped /\ ~ last.clipping /\ ~ last.fast
    /\ ctx.offset_x # 0 /\ ctx.offset_y # 0
    /\ ctx.cr # ctx.initial_cr
    /\ \E i \in Events(last.ev, "mask_surface") :
          last.ev[i].x = 0 /\ last.ev[i].y = 0
    /\ \E i \in Events(last.ev, "set_source_surface") :
          last.ev[i].x = 0 /\ last.ev[i].y = 0

\* the frames of the caller that have set the view box, innermost last: the
\* view boxes pushed, and the masks generated whose content is in the units
\* of the bounding box
ViewBoxFrames ==
    SelectSeq(frames,
              LAMBDA fr : \/ fr.k = "vb"
                          \/ /\ fr.k = "mask"
                             /\ rsvg_node_mask_get_content_units(fr.fr.node)
                                   = objectBoundingBox)

\* the view box size the frame fr has set
SizeSetBy(fr) ==
    IF fr.k = "vb" THEN [width |-> fr.w, height |-> fr.h]
    ELSE [width |-> 1, height |-> 1]

\* C15: rsvg_drawing_ctx_push_view_box (w, h) makes (w, h) the view box and
\* keeps the one before on vb_stack; the view box is that of the innermost
\* push that is open; rsvg_drawing_ctx_pop_view_box restores vb and
\* vb_stack to what they were before the push it matches, at any nesting;
\* rsvg_cairo_generate_mask returns with vb and vb_stack as it found them.
C15_ViewBoxRestored ==
    /\ last.op = "push_view_box" =>
          /\ ctx.vb = [width |-> last.w, height |-> last.h]
          /\ ctx.vb_stack = <<last.pre.vb>> \o last.pre.vb_stack
    /\ (proc = "live" /\ ViewBoxFrames # <<>>) =>
          /\ ctx.vb = SizeSetBy(ViewBoxFrames[Len(ViewBoxFrames)])
          /\ ctx.vb_stack =
                <<ViewBoxFrames[Len(ViewBoxFrames)].saved.vb>>
                \o ViewBoxFrames[Len(ViewBoxFrames)].saved.vb_stack
    /\ proc = "live" => Len(ctx.vb_stack) = Len(ViewBoxFrames)
    /\ last.op \in {"pop_view_box", "generate_mask"} =>
          /\ ctx.vb = last.saved.vb
          /\ ctx.vb_stack = last.saved.vb_stack
    /\ (last.op = "generate_mask_begin" /\ ~ last.started) =>
          /\ ctx.vb = last.saved.vb
          /\ ctx.vb_stack = last.saved.vb_stack

\* the mask M1, which pushes the unit view box twice, has been generated
\* inside a view box that is not the unit one, with two view boxes saved
C15_Witness ==
    /\ last.op = "generate_mask"
    /\ last.node = "M1"
    /\ Len(last.pre.vb_stack) = 3
    /\ Len(ctx.vb_stack) = 2
    /\ ctx.vb # [width |-> 1, height |-> 1]
    /\ last.pre.vb = [width |-> 1, height |-> 1]

\* the drawsub_stack the render pass started with: the path from the root
\* to the node the render is restricted to, or empty
RestrictedTo == IF frames = <<>> THEN ctx.drawsub_stack ELSE frames[1].stacksave

\* the node the render is restricted to
Target == RestrictedTo[Len(RestrictedTo)]

\* the element p is an ancestor of t, t itself, or a descendant of t
OnPathOrBelow(p, t) == IsPrefix(p, t) \/ IsPrefix(t, p)

\* the node the render is restricted to is being drawn
TargetBeingDrawn ==
    \E i \in DOMAIN frames : frames[i].k = "node" /\ frames[i].path = Target

PixelsOf == DOMAIN last.src

\* the pixel of colour r, g, b before it is turned into mask alpha is gray
IsGray(word) == Byte(word, 16) = Byte(word, 8) /\ Byte(word, 8) = Byte(word, 0)

\* C17: the loop of rsvg_cairo_generate_mask leaves, for a pixel with
\* R = G = B = v and opacity 255, v in the most significant byte (0xFF for
\* 0x00FFFFFF, 0x02 for 0x00020202, 0x00 for black), and for opacity 0 the
\* pixel 0 whatever the colour.
C17_LuminanceToAlpha ==
    last.op = "mask_luminance" =>
        \A i \in PixelsOf :
            /\ (last.opacity = 255 /\ IsGray(last.src[i])) =>
                  Byte(pixels.data[i], 24) = Byte(last.src[i], 0)
            /\ (last.opacity = 255 /\ last.src[i] = Argb(0, 255, 255, 255)) =>
                  Byte(pixels.data[i], 24) = 255
            /\ (last.opacity = 255 /\ last.src[i] = Argb(0, 2, 2, 2)) =>
                  Byte(pixels.data[i], 24) = 2
            /\ last.opacity = 0 => pixels.data[i] = Word(0, 0)

\* the white pixel 0x00FFFFFF has been turned into mask alpha at opacity 255
C17_Witness ==
    /\ last.op = "mask_luminance"
    /\ last.opacity = 255
    /\ last.src = <<Argb(0, 255, 255, 255)>>
    /\ Byte(pixels.data[1], 24) = 255

\* C18: convert_alpha writes colours 0 for a pixel of alpha 0 and evaluates
\* no division for it, writes the colours of a pixel of alpha 255 as they
\* are, never divides by 0, and copies the alpha of every pixel.
C18_ConvertAlphaBoundaries ==
    last.op = "surface_to_pixbuf" =>
        \A x \in PixelsOf :
            /\ pixels.data[x].a = Byte(last.src[x], 24)
            /\ \A k \in DOMAIN last.divisors[x] : last.divisors[x][k] # 0
            /\ Byte(last.src[x], 24) = 0 =>
                  /\ pixels.data[x] = Rgba(0, 0, 0, 0)
                  /\ last.divisors[x] = <<>>
            /\ Byte(last.src[x], 24) = 255 =>
                  pixels.data[x] = Rgba(Byte(last.src[x], 16), Byte(last.src[x], 8),
                                        Byte(last.src[x], 0), 255)

\* a pixel of alpha 0 whose colours are not 0 has been converted
C18_Witness ==
    /\ last.op = "surface_to_pixbuf"
    /\ Byte(last.src[1], 24) = 0
    /\ Byte(last.src[1], 16) # 0
    /\ pixels.data[1] = Rgba(0, 0, 0, 0)

\* the last call has converted back a surface that was made of a pixbuf
RoundTrip == last.op = "surface_to_pixbuf" /\ last.origin # <<>>

\* C19, as amended: a pixel of alpha 255 comes back from the premultiplied
\* form as it was; a pixel of alpha 0 comes back as (0, 0, 0, 0), whatever
\* its colours were.
C19_RoundTripAtBoundaries ==
    RoundTrip =>
        \A x \in PixelsOf :
            /\ last.origin[x].a = 255 => pixels.data[x] = last.origin[x]
            /\ last.origin[x].a = 0 => pixels.data[x] = Rgba(0, 0, 0, 0)

\* a pixel of alpha 0 with colours has made the round trip
C19_Witness ==
    /\ RoundTrip
    /\ last.origin[1].a = 0
    /\ last.origin[1].r # 0
    /\ pixels.data[1] = Rgba(0, 0, 0, 0)

\* C19, as the specification states it: a pixel of alpha 255 or of alpha 0
\* comes back from the premultiplied form as it was.
C19_RoundTripExact ==
    RoundTrip =>
        \A x \in PixelsOf :
            last.origin[x].a \in {0, 255} => pixels.data[x] = last.origin[x]

\* the distance of two values of a channel
Distance(c, d) == IF c >= d THEN c - d ELSE d - c

\* the colour channels of the pixel x, each as it was and as it came back
ChannelPairs(x) ==
    {<<last.origin[x].r, pixels.data[x].r>>,
     <<last.origin[x].g, pixels.data[x].g>>,
     <<last.origin[x].b, pixels.data[x].b>>}

\* C20, as amended: a pixel of alpha a in 1..254 comes back from the
\* premultiplied form with alpha a; each colour comes back within
\* (255 + a) / (2 a) of what it was, which is within 1 for a in 85..254.
C20_RoundTripWithinAlphaTolerance ==
    RoundTrip =>
        \A x \in PixelsOf :
            last.origin[x].a \in 1 .. 254 =>
                /\ pixels.data[x].a = last.origin[x].a
                /\ \A ch \in ChannelPairs(x) :
                      /\ Distance(ch[1], ch[2]) * 2 * last.origin[x].a
                            <= 255 + last.origin[x].a
                      /\ last.origin[x].a >= 85 => Distance(ch[1], ch[2]) <= 1

\* a pixel of alpha 1 has made the round trip and its red, which was 128,
\* has come back as 0
C20_Witness ==
    /\ RoundTrip
    /\ last.origin[1].a = 1
    /\ last.origin[1].r = 128
    /\ pixels.data[1].r = 0
    /\ pixels.data[1].a = 1

\* C20, as the specification states it: a pixel of alpha a in 1..254 comes
\* back from the premultiplied form with alpha a and each colour within 1
\* of what it was.
C20_RoundTripWithinOne ==
    RoundTrip =>
        \A x \in PixelsOf :
            last.origin[x].a \in 1 .. 254 =>
                /\ pixels.data[x].a = last.origin[x].a
                /\ \A ch \in ChannelPairs(x) : Distance(ch[1], ch[2]) <= 1

\* the attributes whose text may fail to parse, with the field that holds
\* the value and the flag that says the value is set
ParsedAtts ==
    {[attr |-> "gradientTransform", field |-> "affine", has |-> "hastransform"],
     [attr |-> "spreadMethod", field |-> "spread", has |-> "hasspread"],
     [attr |-> "gradientUnits", field |-> "obj_bbox", has |-> "hasbbox"]}

\* the text of the attribute is given and is a value of the attribute
ValidText(attr, text) ==
    CASE attr = "gradientTransform" ->
             rsvg_parse_transform(cairo_matrix_init_identity, text, FALSE).ok
      [] attr = "spreadMethod" ->
             text \in {CAIRO_EXTEND_PAD, CAIRO_EXTEND_REFLECT, CAIRO_EXTEND_REPEAT}
      [] OTHER -> text \in {userSpaceOnUse, objectBoundingBox}

\* the attributes of the last call whose text is not a value
InvalidAtts ==
    {a \in ParsedAtts :
        /\ rsvg_property_bag_lookup(last.atts, a.attr) # NULL
        /\ ~ ValidText(a.attr, rsvg_property_bag_lookup(last.atts, a.attr))}

\* the length attributes the last call has given
LengthAttsGiven ==
    {key \in DOMAIN last.atts \ ({a.attr : a \in ParsedAtts} \cup {"xlink:href"}) :
        last.atts[key] # NULL}

\* C21: every attribute of a gradient whose text fails to parse is recorded
\* as invalid on the element, its flag stays false and its value stays the
\* initial one; the other attributes of the element are parsed.
C21_InvalidAttributeIgnored ==
    last.op = "set_atts" =>
        /\ \A a \in InvalidAtts :
              /\ \E e \in grad.attribute_errors : e.attr = a.attr
              /\ ~ grad.impl[a.has]
              /\ grad.impl[a.field] = last.pre.impl[a.field]
        /\ \A a \in ParsedAtts \ InvalidAtts :
              rsvg_property_bag_lookup(last.atts, a.attr) # NULL => grad.impl[a.has]
        /\ \A key \in LengthAttsGiven :
              grad.impl[key] = rsvg_length_parse(last.atts[key])

\* C22: an element that meets the conditions of the fast path leaves the
\* same points painted on its parent's surface, the same bbox and ink_bbox,
\* and the same cr and cr_stack, whether its push and pop return early or
\* create a layer, paint into it and composite it.
C22_FastPathEquivalence ==
    last.op = "element" => last.fast = last.forced

\* the last call was a push that did not return at the fast path
LayerPushed == last.op = "push_layer" /\ ~ last.clipping /\ ~ last.fast

\* the surface of the layer the element of the last call has created
LayersSurface == last.ev[Min(Events(last.ev, "create_layer"))].surface

\* the one layer the push of the last call has created
LayerMade == last.ev[Max(Events(last.ev, "create_layer"))]

\* C23: a push that does not return at the fast path prepends the cairo_t
\* that was current to cr_stack and makes the cairo_t of the layer it has
\* created current, a new cairo_t on a new surface when the allocation has
\* succeeded; it prepends bbox and ink_bbox to bb_stack and ink_bb_stack and
\* resets both to empty boxes with the affine of the current state; and it
\* prepends the surface of the layer to surfaces_stack exactly when the
\* element has a filter set.
C23_PushCreatesLayer ==
    LayerPushed =>
        /\ Cardinality(Events(last.ev, "create_layer")) = 1
        /\ ctx.cr_stack = <<last.pre.ctx.cr>> \o last.pre.ctx.cr_stack
        /\ ctx.cr = LayerMade.cr
        /\ LayerMade.surface # NilSurface =>
              /\ ctx.cr \notin DOMAIN last.pre.cairo.target
              /\ ctx.cr \in DOMAIN cairo.target
              /\ cairo_get_target(cairo, ctx.cr) = LayerMade.surface
              /\ LayerMade.surface \notin DOMAIN last.pre.cairo.refs
        /\ ctx.bb_stack = <<last.pre.ctx.bbox>> \o last.pre.ctx.bb_stack
        /\ ctx.ink_bb_stack = <<last.pre.ctx.ink_bbox>> \o last.pre.ctx.ink_bb_stack
        /\ ctx.bbox = rsvg_bbox_init(rsvg_state_get_affine(ctx.state))
        /\ ctx.ink_bbox = rsvg_bbox_init(rsvg_state_get_affine(ctx.state))
        /\ ctx.surfaces_stack =
              IF last.style.filter # NULL
              THEN <<LayerMade.surface>> \o last.pre.ctx.surfaces_stack
              ELSE last.pre.ctx.surfaces_stack

\* an element without filter gets a layer inside the layer of a filtered
\* element, after boxes have been inserted and under a transform of its own
C23_Witness ==
    /\ LayerPushed
    /\ last.style.filter = NULL
    /\ LayerMade.surface # NilSurface
    /\ Len(ctx.cr_stack) = 2
    /\ Len(ctx.surfaces_stack) = 1
    /\ ~ Head(ctx.bb_stack).virgin
    /\ Head(ctx.bb_stack) # Head(ctx.ink_bb_stack)
    /\ rsvg_state_get_affine(ctx.state) # Head(ctx.bb_stack).affine

\* the last call was the pop of an element that is not drawn for a clip
ElementPopped == LayerPopped /\ ~ last.clipping

\* the clip path the push of the element of the last call has acquired, or
\* NULL
ClipPathOfLayer == push_render_stack_acquire(last.pre_push.ctx, last.style).node

\* the backend calls of the element of the last call that composite its layer
Composites ==
    Events(last.ev, "paint") \cup Events(last.ev, "paint_with_alpha")
        \cup Events(last.ev, "mask_surface")

\* C24: between the push and the pop of an element its clip path is applied
\* exactly once, and not at all when the reference names no clip path.  A
\* clip path in userSpaceOnUse is applied by the push, on the cairo_t that
\* was current at the push and before the surface of the layer is created;
\* one in objectBoundingBox is applied by the pop, on the cairo_t the pop has
\* restored, after the layer was created and before it is composited, with
\* the bbox the content has accumulated.
C24_ClipOncePerLayer ==
    ElementPopped =>
        /\ ClipPathOfLayer = NULL => Events(last.ev, "clip") = {}
        /\ ClipPathOfLayer # NULL =>
              /\ Cardinality(Events(last.ev, "clip")) = 1
              /\ \A i \in Events(last.ev, "clip") :
                    /\ last.ev[i].node = ClipPathOfLayer
                    /\ last.ev[i].cr = last.pre_push.ctx.cr
                    /\ last.ev[i].cr = ctx.cr
                    /\ IF rsvg_node_clip_path_get_units(ClipPathOfLayer) = userSpaceOnUse
                       THEN /\ last.ev[i].at = "push"
                            /\ \A j \in Events(last.ev, "create_layer") : i < j
                       ELSE /\ last.ev[i].at = "pop"
                            /\ last.ev[i].bbox = last.pre.ctx.bbox
                            /\ \A j \in Events(last.ev, "create_layer") : j < i
                            /\ \A j \in Composites : i < j

\* an element with an opacity and a clip path in the units of its bounding
\* box has drawn itself, and its layer has been clipped and composited
C24_Witness ==
    /\ ElementPopped
    /\ ClipPathOfLayer = "KB"
    /\ ~ last.pre.ctx.bbox.virgin
    /\ Events(last.ev, "clip") # {}
    /\ Events(last.ev, "paint_with_alpha") # {}

\* the last call was the pop of a layer whose mask is unset or is acquired
\* as a mask of the document
LayerCompositedPop ==
    /\ ElementPopped /\ ~ last.fast
    /\ last.style.mask # NULL =>
          rsvg_drawing_ctx_acquire_node_of_type(last.pre.ctx, last.style.mask,
                                                RSVG_NODE_TYPE_MASK).node # NULL

\* the compositing step of the last pop is the one the style asks for:
\* through the mask, with the opacity as alpha, or fully
CompositeOfStyle(i) ==
    /\ last.ev[i].cr = ctx.cr
    /\ IF last.style.mask # NULL
       THEN last.ev[i].e = "mask_surface"
       ELSE IF last.style.opacity # OPAQUE
       THEN last.ev[i].e = "paint_with_alpha" /\ last.ev[i].opacity = last.style.opacity
       ELSE last.ev[i].e = "paint"

\* the allocation of the mask surface of the last pop has failed
MaskAllocationFailed ==
    \E i \in Events(last.ev, "create_mask") : last.ev[i].surface = NilSurface

\* C25 as claimed: every such pop makes exactly one compositing step, the
\* one its style asks for.
C25_OneCompositePerLayer ==
    LayerCompositedPop =>
        /\ Cardinality(Composites) = 1
        /\ \A i \in Composites : CompositeOfStyle(i)

\* C25: the pop of a layer whose mask is unset or acquired makes exactly one
\* compositing step onto the restored cairo_t, through the mask when a mask
\* is set whatever the opacity, with alpha opacity / 255 when no mask is set
\* and the opacity is not 255, fully otherwise; it makes none when the
\* surface of the mask cannot be allocated.
C25_OneCompositeUnlessMaskAllocationFails ==
    LayerCompositedPop =>
        /\ \A i \in Composites : CompositeOfStyle(i)
        /\ Cardinality(Composites) = IF MaskAllocationFailed THEN 0 ELSE 1
        /\ MaskAllocationFailed => last.style.mask # NULL

\* an element with a mask and an opacity of 128 is composited, once, through
\* the mask
C25_Witness ==
    /\ LayerCompositedPop
    /\ last.style.mask = "#M1"
    /\ last.style.opacity = 128
    /\ ~ MaskAllocationFailed
    /\ Cardinality(Events(last.ev, "mask_surface")) = 1
    /\ Events(last.ev, "paint_with_alpha") = {}

\* the frames of the elements whose layer is open: pushed past the fast
\* path and not yet taken from the stacks by the pop
OpenLayers ==
    {i \in DOMAIN frames :
        /\ frames[i].k = "node"
        /\ ~ frames[i].clipping
        /\ frames[i].pc \in {"content", "kids"}
        /\ Events(frames[i].ev, "create_layer") # {}}

OpenFilteredLayers == {i \in OpenLayers : frames[i].style.filter # NULL}

\* C26: surfaces_stack holds one surface for every open layer whose element
\* has a filter set, innermost first, each the surface that the push of the
\* element created; the pop of such a layer takes the head of
\* surfaces_stack, which is the surface of the cairo_t the pop discards,
\* whether or not the filter is acquired.
C26_SurfacesStackPairsWithFilteredLayers ==
    /\ proc = "rendering" =>
          /\ Len(ctx.surfaces_stack) = Cardinality(OpenFilteredLayers)
          /\ \A i \in OpenFilteredLayers :
                ctx.surfaces_stack[Cardinality({j \in OpenFilteredLayers : j >= i})]
                    = frames[i].ev[Min(Events(frames[i].ev, "create_layer"))].surface
    /\ FilteredLayerPopped =>
          /\ last.pre.ctx.surfaces_stack # <<>>
          /\ ctx.surfaces_stack = Tail(last.pre.ctx.surfaces_stack)
          /\ Head(last.pre.ctx.surfaces_stack) = LayersSurface
          /\ Head(last.pre.ctx.surfaces_stack)
                = cairo_get_target(last.pre.cairo, last.pre.ctx.cr)

\* an element whose filter names no element is popped inside the layer of
\* another filtered element: of two surfaces on the stack its own is taken
C26_Witness ==
    /\ FilteredLayerPopped
    /\ ~ FilterAcquired
    /\ Len(last.pre.ctx.surfaces_stack) = 2
    /\ Len(ctx.surfaces_stack) = 1
    /\ Head(last.pre.ctx.surfaces_stack) # Head(ctx.surfaces_stack)

\* C27: bb_stack and ink_bb_stack are of the same length in every state;
\* the pop of a layer merges the bbox of the layer into the bbox its push
\* has saved and the ink_bbox into the saved ink_bbox, makes the merged
\* boxes current, and takes exactly the head from each stack.  The boxes of
\* the layer are those the content has left when no mask is evaluated.
C27_BoxStacksPopTogether ==
    /\ ctx # NoCtx => Len(ctx.bb_stack) = Len(ctx.ink_bb_stack)
    /\ (ElementPopped /\ ~ last.fast) =>
          /\ last.pre.ctx.bb_stack # <<>>
          /\ ctx.bbox = rsvg_bbox_insert(Head(last.pre.ctx.bb_stack), last.closed.bbox)
          /\ ctx.ink_bbox = rsvg_bbox_insert(Head(last.pre.ctx.ink_bb_stack),
                                             last.closed.ink_bbox)
          /\ ctx.bb_stack = Tail(last.pre.ctx.bb_stack)
          /\ ctx.ink_bb_stack = Tail(last.pre.ctx.ink_bb_stack)
          /\ Events(last.ev, "create_mask") = {} =>
                /\ last.closed.bbox = last.pre.ctx.bbox
                /\ last.closed.ink_bbox = last.pre.ctx.ink_bbox

\* a layer that holds a bbox and a different ink_bbox is popped onto a
\* parent that holds boxes of its own, with another layer still open
C27_Witness ==
    /\ ElementPopped /\ ~ last.fast
    /\ ~ last.closed.bbox.virgin
    /\ last.closed.bbox.rect # last.closed.ink_bbox.rect
    /\ ~ Head(last.pre.ctx.bb_stack).virgin
    /\ Len(ctx.bb_stack) = 1
    /\ ctx.bbox.rect # last.closed.bbox.rect
    /\ ctx.bbox.rect # ctx.ink_bbox.rect

\* C28: rsvg_cairo_clip returns, without a failed assertion, with bbox and
\* ink_bbox as they were when it was entered, whatever the children of the
\* clip path have inserted, and with cr_stack, surfaces_stack, cr and the
\* depth of the state stack as they were.
C28_ClipRestoresBoxes ==
    last.op = "clip" =>
        /\ proc # "aborted"
        /\ ctx.bbox = last.entry.bbox
        /\ ctx.ink_bbox = last.entry.ink_bbox
        /\ ctx.cr_stack = last.entry.cr_stack
        /\ ctx.surfaces_stack = last.entry.surfaces_stack
        /\ ctx.cr = last.entry.cr
        /\ Len(ctx.state) = Len(last.entry.state)

\* the late clip of a layer that is inside another layer: the children of
\* the clip path had changed both boxes when rsvg_cairo_clip put them back
C28_Witness ==
    /\ last.op = "clip"
    /\ last.at = "pop"
    /\ last.left.bbox # last.entry.bbox
    /\ last.left.ink_bbox # last.entry.ink_bbox
    /\ ~ last.entry.bbox.virgin
    /\ last.entry.cr_stack # <<>>
    /\ ctx.bbox = last.entry.bbox

\* rsvg_drawing_ctx_draw_node_from_stack has returned: without drawing the
\* node, or after rsvg_node_draw
DrawNodeReturned ==
    \/ last.op = "draw_node" /\ ~ last.drawn
    \/ last.op = "leave_node"

\* the head of drawsub_stack named another node when the last call was made
NotNamed ==
    /\ last.entry.drawsub_stack # <<>>
    /\ Head(last.entry.drawsub_stack) # last.path

\* C29: rsvg_drawing_ctx_draw_node_from_stack returns with drawsub_stack and
\* the depth of the state stack as it found them, whether the node was not
\* named by the head of drawsub_stack, was invisible or was drawn.  A node
\* is drawn exactly when it is visible and not refused by drawsub_stack;
\* only a node that is drawn gets a state pushed, and it alone takes the
\* head from drawsub_stack while it is drawn.
C29_DrawNodeRestoresStacks ==
    /\ DrawNodeReturned =>
          /\ ctx.drawsub_stack = last.entry.drawsub_stack
          /\ Len(ctx.state) = last.entry.depth
    /\ last.op = "draw_node" =>
          /\ last.drawn <=> (last.visible /\ ~ NotNamed)
          /\ last.drawn =>
                /\ Len(ctx.state) = last.entry.depth + 1
                /\ last.entry.drawsub_stack # <<>> =>
                      ctx.drawsub_stack = Tail(last.entry.drawsub_stack)
                /\ last.entry.drawsub_stack = <<>> => ctx.drawsub_stack = <<>>

\* an invisible node that the head of drawsub_stack names is not drawn, and
\* drawsub_stack still holds it
C29_Witness ==
    /\ last.op = "draw_node"
    /\ ~ last.visible
    /\ ~ last.drawn
    /\ last.entry.drawsub_stack # <<>>
    /\ Head(last.entry.drawsub_stack) = last.path
    /\ ctx.drawsub_stack = last.entry.drawsub_stack

\* the fields that rsvg_cairo_get_surface_of_node sets for the drawing
Swapped(c) ==
    [cr |-> c.cr, initial_cr |-> c.initial_cr, offset_x |-> c.offset_x,
     offset_y |-> c.offset_y, width |-> c.width, height |-> c.height]

\* C30: rsvg_cairo_generate_mask returns with cr as it found it, and
\* rsvg_cairo_get_surface_of_node with cr, initial_cr, offset_x, offset_y,
\* width and height as it found them, having drawn on a cairo_t of its own
\* in between; when the surface allocation of either fails the call returns
\* with the context and the backend untouched and no backend call beyond
\* the allocation made.
C30_TargetSwapsUndone ==
    /\ last.op = "generate_mask" => ctx.cr = last.entry.cr
    /\ last.op = "get_surface_of_node" =>
          /\ Swapped(ctx) = Swapped(last.entry)
          /\ last.surface \in DOMAIN last.returned.refs
          /\ last.pre.cr \notin DOMAIN cairo.target
    /\ (last.op = "generate_mask_begin" /\ last.started) =>
          /\ ctx.cr # last.pre.cr
          /\ ctx.cr \notin DOMAIN last.cairo.target
    /\ (last.op = "get_surface_of_node_begin" /\ last.started) =>
          /\ ctx.cr # last.pre.cr
          /\ ctx.cr \notin DOMAIN last.cairo.target
          /\ Swapped(ctx) = [cr |-> ctx.cr, initial_cr |-> ctx.cr,
                             offset_x |-> 0, offset_y |-> 0,
                             width |-> last.width, height |-> last.height]
    /\ (last.op \in {"generate_mask_begin", "get_surface_of_node_begin"}
            /\ ~ last.started) =>
          /\ ctx = last.pre
          /\ cairo = last.cairo
          /\ \A i \in DOMAIN last.ev : last.ev[i].e = "create_mask"

\* a node has been drawn to a surface of its own from inside a mask that is
\* being generated, on a canvas with an offset, with an element composited
\* while the fields were swapped
C30_Witness ==
    /\ last.op = "get_surface_of_node"
    /\ last.entry.cr # last.entry.initial_cr
    /\ last.entry.offset_x # 0
    /\ last.pre.width # last.entry.width
    /\ last.pre.initial_cr # last.entry.initial_cr
    /\ ~ last.pre.bbox.virgin
    /\ ctx.cr = last.entry.cr

\* the reference a text begins with, and the text after the reference and
\* the white space that follows it
ReferenceOf(str) ==
    CHOOSE u \in UrlTexts : \E sp \in SpaceTexts, col \in ColorTexts : str = u \o sp \o col

AfterReference(str) ==
    CHOOSE col \in ColorTexts : \E u \in UrlTexts, sp \in SpaceTexts : str = u \o sp \o col

BeginsWithReference ==
    /\ last.op = "paint_server_parse"
    /\ last.str # NoText
    /\ ReferenceOf(last.str) \in {<<"url(#g)">>, <<"url(doc.svg#h)">>}

\* C31: a paint value that begins with a url reference gives a paint server
\* of type RSVG_PAINT_SERVER_IRI that carries the identifier of the
\* reference, never NULL; it has an alternate exactly when the text after
\* the reference and the white space is a colour or currentColor, and the
\* alternate is then that colour; it has none when that text is empty, is
\* "none" or is no colour.
C31_ReferenceWithFallback ==
    BeginsWithReference =>
        /\ last.result.server.type = RSVG_PAINT_SERVER_IRI
        /\ last.result.server.iri.iri_str =
               (IF ReferenceOf(last.str) = <<"url(#g)">> THEN "#g" ELSE "doc.svg#h")
        /\ last.result.server.iri.has_alternate =
               (AfterReference(last.str) \in {<<"red">>, <<"#00ff0080">>, <<"currentColor">>})
        /\ AfterReference(last.str) = <<"red">> =>
               last.result.server.iri.alternate = RsvgSolidColor(FALSE, Argb(255, 255, 0, 0))
        /\ AfterReference(last.str) = <<"#00ff0080">> =>
               last.result.server.iri.alternate = RsvgSolidColor(FALSE, Argb(128, 0, 255, 0))
        /\ AfterReference(last.str) = <<"currentColor">> =>
               last.result.server.iri.alternate.currentcolor
        /\ AfterReference(last.str)
               \in {<<>>, <<"none">>, <<"bogus">>, <<"inherit">>, <<"none", " ">>,
                    <<"red", "bogus">>} =>
               ~ last.result.server.iri.has_alternate

\* a reference followed by white space and "none" has been parsed
C31_Witness ==
    /\ BeginsWithReference
    /\ Len(last.str) = 4
    /\ AfterReference(last.str) = <<"none">>
    /\ ~ last.result.server.iri.has_alternate
    /\ last.result.server.iri.iri_str = "doc.svg#h"

\* the messages g_return_if_fail of rsvg_drawing_ctx_release_node logs
ReleaseCriticals ==
    {"critical: ctx->acquired_nodes != NULL", "critical: ctx->acquired_nodes->data == node"}

\* the frames of the elements whose pop is at pc
PoppingAt(pc) == {i \in DOMAIN frames : frames[i].k = "node" /\ frames[i].pc = pc}

\* C32: the push and the pop of a layer return with acquired_nodes as they
\* found it, on the fast path and past it, whatever the clip path, the
\* filter and the mask resolve to; no release of theirs is refused, each
\* being of the head of acquired_nodes; the late clip path is held while
\* it is applied and released by the time the mask is generated.
C32_LayerAcquiresBalanced ==
    proc = "rendering" =>
        /\ last.op \in {"push_layer", "pop_layer"} =>
               ctx.acquired_nodes = last.pre.ctx.acquired_nodes
        /\ ctx.glog \cap ReleaseCriticals = {}
        /\ \A i \in PoppingAt("pop_clip") :
               /\ frames[i].loc.lateclip # NULL
               /\ frames[i].loc.lateclip \in Range(ctx.acquired_nodes)
        /\ \A i \in PoppingAt("pop_mask") :
               /\ frames[i].loc.lateclip # NULL =>
                      frames[i].loc.lateclip \notin Range(ctx.acquired_nodes)
               /\ frames[i].loc.mask_node \in Range(ctx.acquired_nodes)

\* the pop of a layer with a late clip path, a filter and a mask, all three
\* resolved, has returned
C32_Witness ==
    /\ last.op = "pop_layer" /\ ~ last.fast
    /\ last.style.clip_path # NULL /\ last.style.filter # NULL /\ last.style.mask # NULL
    /\ \E i \in DOMAIN last.ev : last.ev[i].e = "filter_render"
    /\ \E i \in DOMAIN last.ev : last.ev[i].e = "clip"
    /\ \E i \in DOMAIN last.ev : last.ev[i].e = "mask_surface"

\* the frames of the calls of rsvg_cairo_clip that are drawing children
Clipping == {i \in DOMAIN frames : frames[i].k = "clip"}

\* C33: rsvg_cairo_push_discrete_layer and rsvg_cairo_pop_discrete_layer
\* with clipping TRUE leave the context and the backend as they are and make
\* no backend call; while the children of a clip path are drawn no layer is
\* open that was not open when rsvg_cairo_clip was entered, and no node is
\* acquired.
C33_ClippingOpensNoLayer ==
    /\ (last.op \in {"push_layer", "pop_layer"} /\ last.clipping) =>
          /\ ctx = last.pre.ctx
          /\ cairo = last.pre.cairo
          /\ last.ev = <<>>
    /\ \A i \in Clipping :
          /\ ctx.cr = frames[i].entry.cr
          /\ ctx.cr_stack = frames[i].entry.cr_stack
          /\ ctx.surfaces_stack = frames[i].entry.surfaces_stack
          /\ ctx.bb_stack = frames[i].entry.bb_stack
          /\ ctx.ink_bb_stack = frames[i].entry.ink_bb_stack
          /\ ctx.acquired_nodes = frames[i].entry.acquired_nodes

\* the child of a clip path, an element with an opacity, has been popped
\* with clipping TRUE
C33_Witness ==
    /\ last.op = "pop_layer" /\ last.clipping
    /\ last.style.opacity = 128
    /\ Clipping # {}

\* C34: the boxes that the pop of a layer merges into those of the
\* enclosing layer are the boxes the pop found at its entry, which the
\* content of the element has made: the generation of the mask, with the
\* drawing of the children of the mask, leaves bbox and ink_bbox alone.
C34_MaskLeavesBoxes ==
    (last.op = "pop_layer" /\ ~ last.clipping /\ ~ last.fast) =>
        last.closed = [bbox |-> last.pre.ctx.bbox, ink_bbox |-> last.pre.ctx.ink_bbox]

\* the upper half, bits 16 and up, of (r * 14042 + g * 47240 + b * 4769) *
\* opacity as a number: it is below 2^16 when the product is below 2^32
UpperHalf(r, g, b, opacity) ==
    ((r * 14042 + g * 47240 + b * 4769) \div 65536) * opacity
        + (((r * 14042 + g * 47240 + b * 4769) % 65536) * opacity) \div 65536

\* the alpha the loop gives the pixel of colours r, g, b under opacity
AlphaOf(r, g, b, opacity) == Byte(mask_luminance(<<Argb(0, r, g, b)>>, opacity)[1], 24)

\* C35: for the pixel the loop has converted and every opacity, the product
\* (R * 14042 + G * 47240 + B * 4769) * opacity is below 2^32, so that the
\* guint32 the loop stores is the product itself; and the alpha, its most
\* significant byte, does not decrease when the opacity, R, G or B grows by
\* one, the other three being those of the pixel.
C35_LuminanceNeverWraps ==
    last.op = "mask_luminance" =>
        LET r == Byte(last.src[1], 16)
            g == Byte(last.src[1], 8)
            b == Byte(last.src[1], 0)
        IN /\ \A o \in Bytes : UpperHalf(r, g, b, o) < 65536
           /\ pixels.data[1].hi = UpperHalf(r, g, b, last.opacity)
           /\ \A o \in 0 .. 254 : AlphaOf(r, g, b, o) <= AlphaOf(r, g, b, o + 1)
           /\ \A v \in 0 .. 254 :
                 /\ AlphaOf(v, g, b, last.opacity) <= AlphaOf(v + 1, g, b, last.opacity)
                 /\ AlphaOf(r, v, b, last.opacity) <= AlphaOf(r, v + 1, b, last.opacity)
                 /\ AlphaOf(r, g, v, last.opacity) <= AlphaOf(r, g, v + 1, last.opacity)

\* the white pixel has been converted under the full opacity, the largest
\* product there is
C35_Witness ==
    /\ last.op = "mask_luminance"
    /\ last.opacity = OPAQUE
    /\ Byte(last.src[1], 16) = 255 /\ Byte(last.src[1], 8) = 255
    /\ Byte(last.src[1], 0) = 255
    /\ pixels.data[1] = Word(65535, 64515)

====
